---- MODULE Spec2Model ----
(***************************************************************************)
(* Model of dev/buildtool/git.py: the semantic-version value, the commit   *)
(* log parser, the commit-message normalizer, the severity classifier and  *)
(* GitRunner.collect_repository_summary.                                   *)
(*                                                                         *)
(* Text is modelled as sequences of atoms.  An atom is either one          *)
(* character ("-", ".", " ", "(", ":", a digit ...) or a word that the     *)
(* code never looks inside ("version", "feat", "c1" ...).  A multi-line    *)
(* text is the sequence of its lines, i.e. the value of text.split('\n'),  *)
(* so the empty text is << <<>> >>.                                        *)
(***************************************************************************)
EXTENDS Integers, Sequences, FiniteSets, TLC

VARIABLES
    \* ---- SemanticVersion.next --------------------------------------------
    semver,            \* the SemanticVersion instance ("self")
    at_index,          \* the argument of next()
    next_result,       \* outcome of self.next(at_index), or Idle
    \* ---- CommitMessage: classification and normalization ------------------
    msgs_in,              \* the list of CommitMessage passed in
    major_rules,          \* optional override of the MAJOR patterns
    minor_rules,          \* optional override of the MINOR patterns
    patch_rules,          \* optional override of the PATCH patterns
    default_index,  \* the default_semver_index argument
    each_implication,      \* determine_semver_implication of each message
    list_implication,      \* determine_semver_implication_on_list(msg_list)
    summaries_result,      \* _unpack_embedded_summaries(msg_list)
    \* ---- GitRunner.collect_repository_summary ------------------------------
    repo_log,          \* the commits of HEAD's history, HEAD first
    repo_refs,         \* the tags of the repository: commit id and tag name
    git_calls,         \* the git commands run so far
    summary_result,    \* outcome of collect_repository_summary, or Idle
    \* ---- CommitMessage: the parser and normalize_message_list -------------
    log_text,          \* response_text, the output of "git log --pretty=medium"
    parse_result,      \* outcome of make_list_from_result(log_text), or Idle
    commits_result,    \* outcome of _unpack_embedded_commits(msgs_in), or Idle
    normalized_result, \* outcome of normalize_message_list(msgs_in), or Idle
    \* ---- tags: the id to tag mapping, SemanticVersion.make and to_tag ------
    commit_tags_in,    \* the commit_tags argument of the query
    newest_tag_map,    \* the local variable id_to_newest_tag, or Idle
    query_result,      \* outcome of the query, or Idle
    tag_text,          \* semver.to_tag(), or Idle
    make_result,       \* outcome of SemanticVersion.make(tag_text), or Idle
    \* ---- GitRunner.clone_repository_to_path -------------------------------
    clone_args,        \* upstream_url, commit, branch and default_branch
    clone_remaining,   \* remaining_branches of __check_clone_branch
    clone_attempts,    \* the clone commands run so far and how each ended
    clone_result,      \* outcome of clone_repository_to_path, or Idle
    \* ---- GitRunner: the stashed GITHUB_TOKEN -------------------------------
    os_environ,        \* GITHUB_TOKEN in os.environ: NoArg when it is absent
    GITHUB_TOKEN,      \* the class attribute GitRunner.__GITHUB_TOKEN
    runners,           \* the __auth_env of every GitRunner constructed
    subprocesses,      \* the commands run so far, each with its environment
    stash_calls,       \* what each stash_and_clear_auth_env_vars call found
    \* ---- which operation has run -----------------------------------------
    pc

semverVars == <<semver, at_index, next_result>>

messageVars == <<msgs_in, major_rules, minor_rules, patch_rules,
                 default_index, each_implication, list_implication,
                 summaries_result>>

repoVars == <<repo_log, repo_refs, git_calls, summary_result>>

unpackVars == <<log_text, parse_result, commits_result, normalized_result>>

tagVars == <<commit_tags_in, newest_tag_map, query_result, tag_text, make_result>>

cloneVars == <<clone_args, clone_remaining, clone_attempts, clone_result>>

authVars == <<os_environ, GITHUB_TOKEN, runners, subprocesses, stash_calls>>

\* the variables of the operations added to the first four
extVars == <<unpackVars, tagVars, cloneVars, authVars>>

vars == <<semverVars, messageVars, repoVars, extVars, pc>>

-----------------------------------------------------------------------------
(* Bounds of the model *)

MaxNum == 2            \* version components range over 0..MaxNum
MaxMsgs == 2           \* commit messages in a list
MaxLines == 3          \* lines of a commit message that is normalized
MaxLog == 3            \* commits in the history of HEAD
MaxRefs == 2           \* tags in the repository

-----------------------------------------------------------------------------
(* Generic helpers *)

\* Python's None where the other values are integers.
None == -1

Idle == [kind |-> "idle"]

Returned(v) == [kind |-> "return", value |-> v]

Raised(exc, what, arg) == [kind |-> "raise", exc |-> exc, what |-> what, arg |-> arg]

Max(S) == CHOOSE x \in S : \A y \in S : y <= x

\* Body(value), with value computed once (a local variable of the code)
With(value, Body(_)) == CHOOSE out \in {Body(v) : v \in {value}} : TRUE

Min2(a, b) == IF a <= b THEN a ELSE b

-----------------------------------------------------------------------------
(* Characters *)

DigitAtoms == {"0", "1", "2", "3", "4", "5", "6", "7", "8", "9"}

DigitVal(a) ==
    CASE a = "0" -> 0 [] a = "1" -> 1 [] a = "2" -> 2 [] a = "3" -> 3
      [] a = "4" -> 4 [] a = "5" -> 5 [] a = "6" -> 6 [] a = "7" -> 7
      [] a = "8" -> 8 [] a = "9" -> 9

DigitAtom(d) ==
    CASE d = 0 -> "0" [] d = 1 -> "1" [] d = 2 -> "2" [] d = 3 -> "3"
      [] d = 4 -> "4" [] d = 5 -> "5" [] d = 6 -> "6" [] d = 7 -> "7"
      [] d = 8 -> "8" [] d = 9 -> "9"

\* int(num) for a run of decimal digits
RECURSIVE ParseInt(_)
ParseInt(ds) ==
    IF ds = <<>> THEN 0
    ELSE 10 * ParseInt(SubSeq(ds, 1, Len(ds) - 1)) + DigitVal(ds[Len(ds)])

\* '{0}'.format(n) for a non-negative integer
RECURSIVE FormatInt(_)
FormatInt(n) ==
    IF n < 10 THEN <<DigitAtom(n)>>
    ELSE FormatInt(n \div 10) \o <<DigitAtom(n % 10)>>

-----------------------------------------------------------------------------
(* class SemanticVersion *)

TAG_INDEX == 0
MAJOR_INDEX == 1
MINOR_INDEX == 2
PATCH_INDEX == 3

SemanticVersion(series_name, major, minor, patch) ==
    [series_name |-> series_name, major |-> major, minor |-> minor, patch |-> patch]

\* The end of the longest run of digits of s that starts at position i
\* (i - 1 when s[i] is not a digit): the greedy \d+.
DigitRunEnd(s, i) ==
    IF i > Len(s) THEN i - 1
    ELSE Max({j \in (i - 1)..Len(s) : \A k \in i..j : s[k] \in DigitAtoms})

\* Whether -(\d+)\.(\d+)\.(\d+) matches s from position i on, and its groups.
SemverSuffixAt(s, i) ==
    LET e1 == DigitRunEnd(s, i + 1)
        e2 == DigitRunEnd(s, e1 + 2)
        e3 == DigitRunEnd(s, e2 + 2)
    IN  [ok |-> /\ i <= Len(s) /\ s[i] = "-"
                /\ e1 >= i + 1
                /\ e1 + 1 <= Len(s) /\ s[e1 + 1] = "."
                /\ e2 >= e1 + 2
                /\ e2 + 1 <= Len(s) /\ s[e2 + 1] = "."
                /\ e3 >= e2 + 2,
         g2 |-> SubSeq(s, i + 1, e1),
         g3 |-> SubSeq(s, e1 + 2, e2),
         g4 |-> SubSeq(s, e2 + 2, e3)]

\* the matcher with a lazy first group, (.+?): the first acceptable "-"
SEMVER_MATCHER_Lazy(tag) ==
    LET starts == {i \in 2..Len(tag) : SemverSuffixAt(tag, i).ok}
    IN  IF starts = {} THEN <<>>
        ELSE LET i == CHOOSE k \in starts : \A j \in starts : k <= j
                 m == SemverSuffixAt(tag, i)
             IN  <<SubSeq(tag, 1, i - 1), m.g2, m.g3, m.g4>>

\* SEMVER_MATCHER = (.+)-(\d+)\.(\d+)\.(\d+) used with match(): anchored at
\* the start only; (.+) is greedy, so the last acceptable "-" is taken.
SEMVER_MATCHER(tag) ==
    LET starts == {i \in 2..Len(tag) : SemverSuffixAt(tag, i).ok}
    IN  IF starts = {} THEN <<>>
        ELSE LET i == Max(starts)
                 m == SemverSuffixAt(tag, i)
             IN  <<SubSeq(tag, 1, i - 1), m.g2, m.g3, m.g4>>

SemanticVersion_make(tag) ==
    LET match == SEMVER_MATCHER(tag)
    IN  IF match = <<>>
        THEN Raised("ValueError", "Malformed tag", tag)
        ELSE Returned(SemanticVersion(match[1], ParseInt(match[2]),
                                      ParseInt(match[3]), ParseInt(match[4])))

to_version(self) ==
    FormatInt(self.major) \o <<".">> \o FormatInt(self.minor) \o <<".">>
        \o FormatInt(self.patch)

to_tag(self) ==
    self.series_name \o <<"-">> \o FormatInt(self.major) \o <<".">>
        \o FormatInt(self.minor) \o <<".">> \o FormatInt(self.patch)

\* next() that forgets to reset the lower components
SemanticVersion_next_NoReset(self, index) ==
    IF index = PATCH_INDEX
    THEN Returned(SemanticVersion(self.series_name, self.major, self.minor,
                                  self.patch + 1))
    ELSE IF index = MINOR_INDEX
         THEN Returned(SemanticVersion(self.series_name, self.major,
                                       self.minor + 1, self.patch))
         ELSE IF index = MAJOR_INDEX
              THEN Returned(SemanticVersion(self.series_name, self.major + 1,
                                            self.minor, self.patch))
              ELSE Raised("ValueError", "Invalid index", index)

\* next() without the final else: an unknown index only resets patch
SemanticVersion_next_NoElse(self, index) ==
    IF index = None
    THEN Raised("ValueError", "Invalid index", index)
    ELSE IF index = PATCH_INDEX
         THEN Returned(SemanticVersion(self.series_name, self.major, self.minor,
                                       self.patch + 1))
         ELSE IF index = MINOR_INDEX
              THEN Returned(SemanticVersion(self.series_name, self.major,
                                            self.minor + 1, 0))
              ELSE IF index = MAJOR_INDEX
                   THEN Returned(SemanticVersion(self.series_name,
                                                 self.major + 1, 0, 0))
                   ELSE Returned(SemanticVersion(self.series_name, self.major,
                                                 self.minor, 0))

SemanticVersion_next(self, index) ==
    IF index = None
    THEN Raised("ValueError", "Invalid index", index)
    ELSE IF index = PATCH_INDEX
         THEN Returned(SemanticVersion(self.series_name, self.major, self.minor,
                                       self.patch + 1))
         ELSE IF index = MINOR_INDEX
              THEN Returned(SemanticVersion(self.series_name, self.major,
                                            self.minor + 1, 0))
              ELSE IF index = MAJOR_INDEX
                   THEN Returned(SemanticVersion(self.series_name,
                                                 self.major + 1, 0, 0))
                   ELSE Raised("ValueError", "Invalid index", index)

-----------------------------------------------------------------------------
(* Text helpers: str.strip / rstrip / startswith on atoms and lines *)

L_empty == <<>>

EmptyText == <<L_empty>>

IsBlank(line) == \A k \in 1..Len(line) : line[k] = " "

\* line.lstrip() and line.rstrip()
LStripLine(line) ==
    LET nonsp == {k \in 1..Len(line) : line[k] # " "}
    IN  IF nonsp = {} THEN <<>>
        ELSE SubSeq(line, CHOOSE k \in nonsp : \A j \in nonsp : k <= j, Len(line))

RStripLine(line) ==
    LET nonsp == {k \in 1..Len(line) : line[k] # " "}
    IN  IF nonsp = {} THEN <<>> ELSE SubSeq(line, 1, Max(nonsp))

\* '\n'.join(lines): joining no lines gives the empty text
Join(lines) == IF lines = <<>> THEN EmptyText ELSE lines

\* '\n'.join(lines).rstrip(): trailing blank lines go, then the trailing
\* spaces of the last line that is left
RStripText(lines) ==
    LET keep == {k \in 1..Len(lines) : ~IsBlank(lines[k])}
    IN  IF keep = {} THEN EmptyText
        ELSE SubSeq(lines, 1, Max(keep) - 1) \o <<RStripLine(lines[Max(keep)])>>

\* text.strip() for a multi-line text
StripText(lines) ==
    LET keep == {k \in 1..Len(lines) : ~IsBlank(lines[k])}
    IN  IF keep = {} THEN EmptyText
        ELSE LET lo == CHOOSE k \in keep : \A j \in keep : k <= j
                 hi == Max(keep)
             IN  IF lo = hi THEN <<RStripLine(LStripLine(lines[lo]))>>
                 ELSE <<LStripLine(lines[lo])>> \o SubSeq(lines, lo + 1, hi - 1)
                          \o <<RStripLine(lines[hi])>>

StartsWith(line, prefix) ==
    /\ Len(prefix) <= Len(line)
    /\ SubSeq(line, 1, Len(prefix)) = prefix

\* n spaces
RECURSIVE Spaces(_)
Spaces(n) == IF n = 0 THEN <<>> ELSE <<" ">> \o Spaces(n - 1)

\* whether the atoms of needle occur consecutively in line
Contains(line, needle) ==
    \E k \in 1..(Len(line) - Len(needle) + 1) :
        SubSeq(line, k, k + Len(needle) - 1) = needle

-----------------------------------------------------------------------------
(* class CommitMessage: the matchers *)

CommitMessage(commit_id, author, date, message) ==
    [commit_id |-> commit_id, author |-> author, date |-> date, message |-> message]

\* words made of [a-z] only
LowerWords == {"fix", "bug", "doc", "docs", "test", "feat", "feature", "chore",
               "refactor", "perf", "config", "style", "note", "text", "random",
               "a", "b", "x", "y", "z", "commit"}

\* words made of [a-f0-9] only
HexWords == {"abc", "def", "c1", "c2", "c3", "c4", "c5", "a", "b"}

\* A compiled regular expression.  shape "contains": the atoms occur somewhere
\* in a line.  shape "type": a line is  \s* (\*\s+)? <one of types> [(:] .*
\* groups is the number of capture groups of the pattern.
Regex(shape, atoms, types, groups) ==
    [shape |-> shape, atoms |-> atoms, types |-> types, groups |-> groups]

DEFAULT_PATCH_REGEXS ==
    << Regex("type", <<>>, {"fix", "bug", "doc", "docs", "test"}, 1) >>

DEFAULT_MINOR_REGEXS ==
    << Regex("type", <<>>,
             {"feat", "feature", "chore", "refactor", "perf", "config"}, 1) >>

DEFAULT_MAJOR_REGEXS ==
    << Regex("contains", <<"BREAKING", " ", "CHANGE">>, {}, 1) >>

\* ^\s*(?:\*\s+)? : what is left of a line after the optional bullet
AfterBullet1(line) ==
    LET r == LStripLine(line)
    IN  IF Len(r) >= 2 /\ r[1] = "*" /\ r[2] = " "
        THEN LStripLine(Tail(r)) ELSE r

\* matcher.search(line) for one line of the text (the patterns are MULTILINE
\* and none of them can match across a line end other than through \s*)
RegexMatchesLine(matcher, line) ==
    IF matcher.shape = "contains"
    THEN Contains(line, matcher.atoms)
    ELSE LET r == AfterBullet1(line)
         IN  /\ Len(r) >= 2
             /\ r[1] \in matcher.types
             /\ r[2] \in {"(", ":"}

\* matcher.search(text) is not None
RegexSearch(matcher, text) ==
    \E k \in 1..Len(text) : RegexMatchesLine(matcher, text[k])

\* _EMBEDDED_SUMMARY_MATCHER.match(line):  ^\s*(?:\*\s*)?[a-z]+\(.+?\): .+
EMBEDDED_SUMMARY_MATCHER(line) ==
    LET r0 == LStripLine(line)
        r  == IF Len(r0) >= 1 /\ r0[1] = "*" THEN LStripLine(Tail(r0)) ELSE r0
    IN  /\ Len(r) >= 2
        /\ r[1] \in LowerWords
        /\ r[2] = "("
        /\ \E j \in 4..Len(r) :
              /\ r[j] = ")"
              /\ j + 3 <= Len(r)
              /\ r[j + 1] = ":"
              /\ r[j + 2] = " "

-----------------------------------------------------------------------------
(* CommitMessage.make_list_from_result and CommitMessage.make (the parser) *)

\* The lines of text that start with "commit ": where ('\n' + text) is split
CommitLineIndexes(lines) ==
    {k \in 1..Len(lines) : StartsWith(lines[k], <<"commit", " ">>)}

\* ('\n' + text).split('\ncommit ')[1:] : every entry runs from what follows
\* "commit " up to the line before the next line that starts with "commit "
SplitEntries(lines) ==
    LET starts == CommitLineIndexes(lines)
        EndOf(k) == IF \E m \in starts : m > k
                    THEN (CHOOSE m \in starts : m > k /\ \A n \in starts : n > k => m <= n) - 1
                    ELSE Len(lines)
        Entry(k) == <<SubSeq(lines[k], 3, Len(lines[k]))>> \o SubSeq(lines, k + 1, EndOf(k))
        RECURSIVE From(_)
        From(k) == IF k > Len(lines) THEN <<>>
                   ELSE IF k \in starts THEN <<Entry(k)>> \o From(k + 1)
                   ELSE From(k + 1)
    IN  From(1)

\* _MEDIUM_PRETTY_COMMIT_MATCHER.match(entry):  (.+)\nAuthor: *(.+)\nDate: *(.*)\n
\* <<>> when there is no match, else the three groups.
MEDIUM_PRETTY_COMMIT_MATCHER(entry) ==
    IF /\ Len(entry) >= 4
       /\ Len(entry[1]) >= 1
       /\ StartsWith(entry[2], <<"Author", ":">>)
       /\ Len(entry[2]) >= 3
       /\ StartsWith(entry[3], <<"Date", ":">>)
    THEN LET after_author == SubSeq(entry[2], 3, Len(entry[2]))
             after_date == SubSeq(entry[3], 3, Len(entry[3]))
         IN  << entry[1],
                IF IsBlank(after_author) THEN <<" ">> ELSE LStripLine(after_author),
                LStripLine(after_date) >>
    ELSE <<>>

\* "while lines and not lines[0]: del lines[0]" and the same at the end
TrimBlankLines(lines) ==
    LET keep == {k \in 1..Len(lines) : lines[k] # <<>>}
    IN  IF keep = {} THEN <<>>
        ELSE SubSeq(lines, CHOOSE k \in keep : \A j \in keep : k <= j, Max(keep))

\* CommitMessage.make(entry); match.end(3) of None raises AttributeError
CommitMessage_make(entry) ==
    LET match == MEDIUM_PRETTY_COMMIT_MATCHER(entry)
    IN  IF match = <<>>
        THEN Raised("AttributeError", "'NoneType' object has no attribute 'end'", entry)
        ELSE LET text == <<L_empty>> \o SubSeq(entry, 4, Len(entry))
                 lines == [k \in 1..Len(text) |-> RStripLine(text[k])]
             IN  Returned(CommitMessage(match[1], match[2], match[3],
                                        Join(TrimBlankLines(lines))))

\* The loop of make_list_from_result: the first entry that raises ends it
RECURSIVE MakeEach(_, _)
MakeEach(all_entries, response) ==
    IF all_entries = <<>> THEN Returned(response)
    ELSE With(CommitMessage_make(Head(all_entries)), LAMBDA made :
             IF made.kind = "raise" THEN made
             ELSE MakeEach(Tail(all_entries), Append(response, made.value)))

make_list_from_result(response_text) ==
    With(SplitEntries(StripText(response_text)), LAMBDA all_entries :
        MakeEach(all_entries, <<>>))

-----------------------------------------------------------------------------
(* CommitMessage._unpack_embedded_commits (Pass A) *)

\* The first line after line k that is not blank, 0 if there is none (\s*
\* at the start of a line also runs over blank lines)
NextNonBlank(lines, k) ==
    LET later == {m \in (k + 1)..Len(lines) : ~IsBlank(lines[m])}
    IN  IF later = {} THEN 0 ELSE CHOOSE m \in later : \A n \in later : m <= n

\* _EMBEDDED_COMMIT_MATCHER matches with its first line being line k:
\*   ^( *)commit [a-f0-9]+\n ^\s*Author: .+\n ^\s*Date:   .+\n
EmbeddedCommitAt(lines, k) ==
    LET head == LStripLine(lines[k])
        a == NextNonBlank(lines, k)
        d == IF a = 0 THEN 0 ELSE NextNonBlank(lines, a)
    IN  /\ Len(head) = 3
        /\ head[1] = "commit" /\ head[2] = " " /\ head[3] \in HexWords
        /\ a # 0
        /\ StartsWith(LStripLine(lines[a]), <<"Author", ":", " ">>)
        /\ Len(LStripLine(lines[a])) >= 4
        /\ d # 0
        /\ StartsWith(LStripLine(lines[d]), <<"Date", ":", " ", " ", " ">>)
        /\ Len(LStripLine(lines[d])) >= 6
        /\ d < Len(lines)

\* _EMBEDDED_COMMIT_MATCHER.search(text): the line where the leftmost match
\* starts, 0 when there is none
EMBEDDED_COMMIT_MATCHER(lines) ==
    LET hits == {k \in 1..Len(lines) : EmbeddedCommitAt(lines, k)}
    IN  IF hits = {} THEN 0 ELSE CHOOSE k \in hits : \A j \in hits : k <= j

\* the loop that stops at the line that breaks the indentation and keeps the
\* lines pruned so far
RECURSIVE PruneLoop_NoAbort(_, _, _)
PruneLoop_NoAbort(text_lines, prefix, pruned_lines) ==
    IF text_lines = <<>> THEN pruned_lines
    ELSE LET line == Head(text_lines)
         IN  IF StartsWith(line, prefix)
             THEN PruneLoop_NoAbort(Tail(text_lines), prefix,
                            Append(pruned_lines, SubSeq(line, Len(prefix) + 1, Len(line))))
             ELSE IF line = <<>>
             THEN PruneLoop_NoAbort(Tail(text_lines), prefix, Append(pruned_lines, line))
             ELSE pruned_lines

\* The loop over text_lines: pruned_lines, or <<>> after the break
RECURSIVE PruneLoop(_, _, _)
PruneLoop(text_lines, prefix, pruned_lines) ==
    IF text_lines = <<>> THEN pruned_lines
    ELSE LET line == Head(text_lines)
         IN  IF StartsWith(line, prefix)
             THEN PruneLoop(Tail(text_lines), prefix,
                            Append(pruned_lines, SubSeq(line, Len(prefix) + 1, Len(line))))
             ELSE IF line = <<>>
             THEN PruneLoop(Tail(text_lines), prefix, Append(pruned_lines, line))
             ELSE <<>>

\* the loop body that keeps the merge commit in front of the records of its
\* nested log
UnpackCommitsOf_KeepsOriginal(commit_message) ==
    LET text == commit_message.message
        found == EMBEDDED_COMMIT_MATCHER(text)
    IN  IF found = 0 THEN Returned(<<commit_message>>)
        ELSE LET text_lines == SubSeq(text, found, Len(text))
                 group1 == SubSeq(text[found], 1, Len(text[found]) - 3)
                 pruned_lines == PruneLoop(text_lines, group1, <<>>)
             IN  IF pruned_lines = <<>> THEN Returned(<<commit_message>>)
                 ELSE With(make_list_from_result(pruned_lines), LAMBDA made :
                          IF made.kind = "raise" THEN made
                          ELSE Returned(<<commit_message>> \o made.value))

\* The body of the loop for one commit_message: the records it adds to result
UnpackCommitsOf(commit_message) ==
    LET text == commit_message.message
        found == EMBEDDED_COMMIT_MATCHER(text)
    IN  IF found = 0 THEN Returned(<<commit_message>>)
        ELSE LET text_lines == SubSeq(text, found, Len(text))
                 group1 == SubSeq(text[found], 1, Len(text[found]) - 3)
                 pruned_lines == PruneLoop(text_lines, group1, <<>>)
             IN  IF pruned_lines = <<>> THEN Returned(<<commit_message>>)
                 ELSE make_list_from_result(pruned_lines)

\* The loop over msg_list: the first record whose re-parse raises ends it
RECURSIVE UnpackCommitsLoop(_, _)
UnpackCommitsLoop(msg_list, result) ==
    IF msg_list = <<>> THEN Returned(result)
    ELSE With(UnpackCommitsOf(Head(msg_list)), LAMBDA added :
             IF added.kind = "raise" THEN added
             ELSE UnpackCommitsLoop(Tail(msg_list), result \o added.value))

unpack_embedded_commits(msg_list) == UnpackCommitsLoop(msg_list, <<>>)

-----------------------------------------------------------------------------
(* CommitMessage.determine_semver_implication *)

\* An optional argument: <<>> is None, <<v>> is the value v.
NoArg == <<>>
Arg(v) == <<v>>

\* is_compliant(spec): the groups() of the first matcher of spec that the
\* message matches, as a tuple of that many groups; None is modelled as <<>>,
\* which the caller tests the same way ("if reason").
is_compliant(message, spec) ==
    IF spec = <<>> THEN <<>>
    ELSE LET text == StripText(message)
             hits == {k \in 1..Len(spec) : RegexSearch(spec[k], text)}
         IN  IF hits = {} THEN <<>>
             ELSE LET first == CHOOSE k \in hits : \A j \in hits : k <= j
                  IN  [g \in 1..spec[first].groups |-> "group"]

determine_semver_implication(self, major_regexs, minor_regexs, patch_regexs, default_semver_index) ==
    LET major == IF major_regexs = NoArg THEN DEFAULT_MAJOR_REGEXS
                 ELSE major_regexs[1]
        minor == IF minor_regexs = NoArg THEN DEFAULT_MINOR_REGEXS
                 ELSE minor_regexs[1]
        patch == IF patch_regexs = NoArg THEN DEFAULT_PATCH_REGEXS
                 ELSE patch_regexs[1]
    IN  IF is_compliant(self.message, major) # <<>> THEN MAJOR_INDEX
        ELSE IF is_compliant(self.message, minor) # <<>> THEN MINOR_INDEX
        ELSE IF is_compliant(self.message, patch) # <<>> THEN PATCH_INDEX
        ELSE default_semver_index

\* The loop of determine_semver_implication_on_list over msg_list[i..]
RECURSIVE ImplicationLoop(_, _, _, _, _, _, _)

\* the loop keeping the implication of the last message instead of the least
ImplicationLoop_Last(msg_list, i, msi, major_regexs, minor_regexs, patch_regexs, default_semver_index) ==
    determine_semver_implication(msg_list[Len(msg_list)], major_regexs,
                                 minor_regexs, patch_regexs,
                                 default_semver_index)

ImplicationLoop(msg_list, i, msi, major_regexs, minor_regexs, patch_regexs, default_semver_index) ==
    IF i > Len(msg_list) THEN msi
    ELSE ImplicationLoop(msg_list, i + 1,
             Min2(msi, determine_semver_implication(
                           msg_list[i], major_regexs, minor_regexs,
                           patch_regexs, default_semver_index)),
             major_regexs, minor_regexs, patch_regexs, default_semver_index)

determine_semver_implication_on_list(msg_list, major_regexs, minor_regexs, patch_regexs, default_semver_index) ==
    IF msg_list = <<>> THEN None
    ELSE ImplicationLoop(msg_list, 1, PATCH_INDEX + 1, major_regexs,
                         minor_regexs, patch_regexs, default_semver_index)

-----------------------------------------------------------------------------
(* CommitMessage._unpack_embedded_summaries (Pass B) *)

\* lines[lo:hi] of Python (0-based, hi exclusive)
Slice(lines, lo, hi) == SubSeq(lines, lo + 1, hi)

\* The loop over enumerate(lines) from index on; prev as in the code.
\* Returns the records appended in the loop and the final prev.
RECURSIVE SummaryLoop(_, _, _, _, _)
SummaryLoop(commit_message, lines, index, prev, result) ==
    IF index >= Len(lines) THEN [result |-> result, prev |-> prev]
    ELSE IF EMBEDDED_SUMMARY_MATCHER(lines[index + 1])
         THEN SummaryLoop(commit_message, lines, index + 1, index,
                  IF prev >= 0
                  THEN Append(result,
                           CommitMessage(commit_message.commit_id,
                                         commit_message.author,
                                         commit_message.date,
                                         RStripText(Slice(lines, prev, index))))
                  ELSE result)
         ELSE SummaryLoop(commit_message, lines, index + 1, prev, result)

\* the loop body whose last block always starts at the first line
UnpackSummariesOf_WholeTail(commit_message) ==
    LET lines == commit_message.message
        loop  == SummaryLoop(commit_message, lines, 0, -1, <<>>)
    IN  Append(loop.result,
               CommitMessage(commit_message.commit_id, commit_message.author,
                             commit_message.date,
                             RStripText(Slice(lines, 0, Len(lines)))))

\* The body of the outer loop for one commit_message
UnpackSummariesOf(commit_message) ==
    LET lines == commit_message.message
        loop  == SummaryLoop(commit_message, lines, 0, -1, <<>>)
        prev  == IF loop.prev < 0 THEN 0 ELSE loop.prev
    IN  Append(loop.result,
               CommitMessage(commit_message.commit_id, commit_message.author,
                             commit_message.date,
                             RStripText(Slice(lines, prev, Len(lines)))))

RECURSIVE unpack_embedded_summaries(_)
unpack_embedded_summaries(msg_list) ==
    IF msg_list = <<>> THEN <<>>
    ELSE UnpackSummariesOf(Head(msg_list))
             \o unpack_embedded_summaries(Tail(msg_list))

normalize_message_list(msg_list) ==
    With(unpack_embedded_commits(msg_list), LAMBDA unpacked :
        IF unpacked.kind = "raise" THEN unpacked
        ELSE Returned(unpack_embedded_summaries(unpacked.value)))

-----------------------------------------------------------------------------
(* class CommitTag and GitRunner.query_tag_commits *)

CommitTag(commit_id, tag) == [commit_id |-> commit_id, tag |-> tag]

\* s.split(sep) for a one-atom separator
RECURSIVE Split(_, _)
Split(s, sep) ==
    LET at == {k \in 1..Len(s) : s[k] = sep}
    IN  IF at = {} THEN <<s>>
        ELSE LET k == CHOOSE m \in at : \A n \in at : m <= n
             IN  <<SubSeq(s, 1, k - 1)>> \o Split(SubSeq(s, k + 1, Len(s)), sep)

\* CommitTag.make(ref_line) for a line "$commit_id refs/tags/$tag"
CommitTag_make(ref_line) ==
    LET tokens == Split(ref_line, " ")
        tag_parts == Split(tokens[2], "/")
    IN  CommitTag(tokens[1], tag_parts[Len(tag_parts)])

\* The byte that Python 2 compares an atom by (for a word, its first letter)
AtomCode(a) ==
    CASE a = "-" -> 45 [] a = "." -> 46 [] a = "/" -> 47
      [] a \in DigitAtoms -> 48 + DigitVal(a)
      [] a = "release" -> 114 [] a = "version" -> 118

\* first.tag < second.tag, the order of str: CommitTag.__lt__
RECURSIVE TagLess(_, _)
TagLess(first, second) ==
    IF second = <<>> THEN FALSE
    ELSE IF first = <<>> THEN TRUE
    ELSE IF Head(first) = Head(second) THEN TagLess(Tail(first), Tail(second))
    ELSE AtomCode(Head(first)) < AtomCode(Head(second))

CommitTag_lt(self, other) == TagLess(self.tag, other.tag)

\* sorted(tags): a stable sort that only uses __lt__
\* x put into the sorted sequence before the first element greater than it
InsertSorted(sorted, x) ==
    With({k \in 1..Len(sorted) : CommitTag_lt(x, sorted[k])}, LAMBDA after :
        With(IF after = {} THEN Len(sorted) + 1
             ELSE CHOOSE k \in after : \A j \in after : k <= j, LAMBDA pos :
            SubSeq(sorted, 1, pos - 1) \o <<x>> \o SubSeq(sorted, pos, Len(sorted))))

\* the tags left in the order they were given in
Sorted_AsGiven(tags) == tags

RECURSIVE Sorted(_)
Sorted(tags) ==
    IF tags = <<>> THEN <<>>
    ELSE With(Sorted(SubSeq(tags, 1, Len(tags) - 1)), LAMBDA rest :
             InsertSorted(rest, tags[Len(tags)]))

Reverse(seq) == [k \in 1..Len(seq) |-> seq[Len(seq) + 1 - k]]

\* sorted(tags, reverse=True): equal elements keep their order
SortedReverse(tags) ==
    With(Reverse(tags), LAMBDA reversed :
        With(Sorted(reversed), LAMBDA sorted : Reverse(sorted)))

\* re.compile(r'^version-[0-9]+\.[0-9]+\.[0-9]+$').match(tag)
VersionTagPattern(tag) ==
    LET m == SemverSuffixAt(tag, 2)
    IN  /\ Len(tag) >= 7
        /\ tag[1] = "version"
        /\ m.ok
        /\ Len(tag) = 4 + Len(m.g2) + Len(m.g3) + Len(m.g4)

\* The output of "git show-ref --tags", one line per tag
GitShowRefTags(refs) ==
    [k \in 1..Len(refs) |->
        refs[k].commit_id \o <<" ", "refs", "/", "tags", "/">> \o refs[k].tag]

query_tag_commits(refs) ==
    LET Matches(ct) == VersionTagPattern(ct.tag)
    IN  With(GitShowRefTags(refs), LAMBDA ref_lines :
        With([k \in 1..Len(ref_lines) |-> CommitTag_make(ref_lines[k])], LAMBDA commit_tags :
        With(SelectSeq(commit_tags, Matches), LAMBDA filtered :
            SortedReverse(filtered))))

-----------------------------------------------------------------------------
(* GitRunner.query_local_repository_commits_to_existing_tag_from_id *)

\* The output of "git log --pretty=oneline <id>": commit id and subject
GitLogOneline(log) ==
    [k \in 1..Len(log) |-> log[k].commit_id \o <<" ">> \o log[k].body[1]]

\* The output of "git log -n <count> --pretty=medium <id>"; the message is
\* indented by four spaces
RECURSIVE GitLogMedium(_, _)
GitLogMedium(log, count) ==
    IF count = 0 \/ log = <<>> THEN <<>>
    ELSE LET c == Head(log)
         IN  << <<"commit", " ">> \o c.commit_id,
                <<"Author", ":", " ">> \o c.author,
                <<"Date", ":", " ", " ", " ">> \o c.date,
                L_empty >>
             \o [k \in 1..Len(c.body) |-> Spaces(4) \o c.body[k]]
             \o <<L_empty>>
             \o GitLogMedium(Tail(log), count - 1)

\* the loop keeping the first tag seen for a commit id instead of the last
RECURSIVE NewestTags_KeepFirst(_, _)
NewestTags_KeepFirst(sorted_tags, id_to_newest_tag) ==
    IF sorted_tags = <<>> THEN id_to_newest_tag
    ELSE LET commit_tag == Head(sorted_tags)
         IN  NewestTags_KeepFirst(Tail(sorted_tags),
                 [id \in DOMAIN id_to_newest_tag \cup {commit_tag.commit_id} |->
                     IF id \in DOMAIN id_to_newest_tag THEN id_to_newest_tag[id]
                     ELSE commit_tag.tag])

\* id_to_newest_tag after the loop over sorted(commit_tags)
RECURSIVE NewestTags(_, _)
NewestTags(sorted_tags, id_to_newest_tag) ==
    IF sorted_tags = <<>> THEN id_to_newest_tag
    ELSE LET commit_tag == Head(sorted_tags)
         IN  NewestTags(Tail(sorted_tags),
                 [id \in DOMAIN id_to_newest_tag \cup {commit_tag.commit_id} |->
                     IF id = commit_tag.commit_id THEN commit_tag.tag
                     ELSE id_to_newest_tag[id]])

\* dict.get(key): <<>> is None
DictGet(dict, key) == IF key \in DOMAIN dict THEN Arg(dict[key]) ELSE NoArg

\* the walk counting the entry that carries the baseline tag as well
RECURSIVE WalkLoop_CountsBaseline(_, _, _, _)
WalkLoop_CountsBaseline(lines, id_to_newest_tag, tag, count) ==
    IF lines = <<>> THEN [tag |-> tag, count |-> count]
    ELSE LET line_id == Split(Head(lines), " ")[1]
             found == DictGet(id_to_newest_tag, line_id)
         IN  IF found # NoArg /\ found[1] # <<>>
             THEN [tag |-> found, count |-> count + 1]
             ELSE WalkLoop_CountsBaseline(Tail(lines), id_to_newest_tag, found, count + 1)

\* The loop over the lines of the oneline log; tag and count as in the code
RECURSIVE WalkLoop(_, _, _, _)
WalkLoop(lines, id_to_newest_tag, tag, count) ==
    IF lines = <<>> THEN [tag |-> tag, count |-> count]
    ELSE LET line_id == Split(Head(lines), " ")[1]
             found == DictGet(id_to_newest_tag, line_id)
         IN  IF found # NoArg /\ found[1] # <<>>
             THEN [tag |-> found, count |-> count]
             ELSE WalkLoop(Tail(lines), id_to_newest_tag, found, count + 1)

GitCall(command, count, id) == [command |-> command, count |-> count, id |-> id]

\* the query without the "if tag is None: raise": the whole log is requested
\* and the caller fails on the tag None
query_local_repository_commits_NoRaise(log, commit_id, commit_tags) ==
    LET oneline == GitCall("log --pretty=oneline", 0, commit_id)
    IN  With(NewestTags(Sorted(commit_tags), <<>>), LAMBDA id_to_newest_tag :
        With(DictGet(id_to_newest_tag, commit_id), LAMBDA tag :
        IF tag # NoArg
        THEN [outcome |-> Returned(<<tag[1], <<>> >>), calls |-> <<>>]
        ELSE
        With(WalkLoop(GitLogOneline(log), id_to_newest_tag, tag, 0), LAMBDA walk :
        With(GitCall("log --pretty=medium", walk.count, commit_id), LAMBDA medium :
        IF walk.tag = NoArg
        THEN [outcome |-> Raised("TypeError", "expected string or buffer", <<>>),
              calls |-> <<oneline, medium>>]
        ELSE
        With(make_list_from_result(GitLogMedium(log, walk.count)), LAMBDA messages :
        IF messages.kind = "raise"
        THEN [outcome |-> messages, calls |-> <<oneline, medium>>]
        ELSE [outcome |-> Returned(<<walk.tag[1], messages.value>>),
              calls |-> <<oneline, medium>>])))))

\* Returns the outcome and the git commands that were run.
query_local_repository_commits_to_existing_tag_from_id(log, commit_id, commit_tags) ==
    LET oneline == GitCall("log --pretty=oneline", 0, commit_id)
    IN  With(NewestTags(Sorted(commit_tags), <<>>), LAMBDA id_to_newest_tag :
        With(DictGet(id_to_newest_tag, commit_id), LAMBDA tag :
        IF tag # NoArg
        THEN [outcome |-> Returned(<<tag[1], <<>> >>), calls |-> <<>>]
        ELSE
        With(WalkLoop(GitLogOneline(log), id_to_newest_tag, tag, 0), LAMBDA walk :
        With(GitCall("log --pretty=medium", walk.count, commit_id), LAMBDA medium :
        IF walk.tag = NoArg
        THEN [outcome |-> Raised("ValueError", "There is no baseline tag for commit", commit_id),
              calls |-> <<oneline>>]
        ELSE
        With(make_list_from_result(GitLogMedium(log, walk.count)), LAMBDA messages :
        IF messages.kind = "raise"
        THEN [outcome |-> messages, calls |-> <<oneline, medium>>]
        ELSE [outcome |-> Returned(<<walk.tag[1], messages.value>>),
              calls |-> <<oneline, medium>>])))))

-----------------------------------------------------------------------------
(* GitRunner.collect_repository_summary *)

RepositorySummary(commit_id, tag, version, commit_messages) ==
    [commit_id |-> commit_id, tag |-> tag, version |-> version,
     commit_messages |-> commit_messages]

\* the summary that keeps the baseline's tag and version although commits
\* are pending
collect_repository_summary_NoBump(log, refs) ==
    LET current_id == log[1].commit_id
        first_calls == << GitCall("show-ref --tags", 0, <<>>),
                          GitCall("rev-parse HEAD", 0, <<>>) >>
    IN  With(query_tag_commits(refs), LAMBDA all_tags :
        With(query_local_repository_commits_to_existing_tag_from_id(
                 log, current_id, all_tags), LAMBDA query :
        With(first_calls \o query.calls, LAMBDA calls :
        IF query.outcome.kind = "raise"
        THEN [outcome |-> query.outcome, calls |-> calls]
        ELSE
        With(query.outcome.value[1], LAMBDA tag :
        With(query.outcome.value[2], LAMBDA msgs :
        With(SemanticVersion_make(tag), LAMBDA current_semver :
        IF current_semver.kind = "raise"
        THEN [outcome |-> current_semver, calls |-> calls]
        ELSE [outcome |-> Returned(RepositorySummary(current_id, tag,
                              to_version(current_semver.value), msgs)),
              calls |-> calls]))))))

\* the summary built from the normalized message list
collect_repository_summary_Normalizing(log, refs) ==
    LET current_id == log[1].commit_id
        first_calls == << GitCall("show-ref --tags", 0, <<>>),
                          GitCall("rev-parse HEAD", 0, <<>>) >>
    IN  With(query_tag_commits(refs), LAMBDA all_tags :
        With(query_local_repository_commits_to_existing_tag_from_id(
                 log, current_id, all_tags), LAMBDA query :
        With(first_calls \o query.calls, LAMBDA calls :
        IF query.outcome.kind = "raise"
        THEN [outcome |-> query.outcome, calls |-> calls]
        ELSE
        With(query.outcome.value[1], LAMBDA tag :
        With(normalize_message_list(query.outcome.value[2]), LAMBDA normalized :
        IF normalized.kind = "raise"
        THEN [outcome |-> normalized, calls |-> calls]
        ELSE
        With(normalized.value, LAMBDA msgs :
        With(SemanticVersion_make(tag), LAMBDA current_semver :
        IF current_semver.kind = "raise"
        THEN [outcome |-> current_semver, calls |-> calls]
        ELSE IF msgs # <<>>
        THEN With(determine_semver_implication_on_list(
                      msgs, NoArg, NoArg, NoArg, MINOR_INDEX), LAMBDA semver_significance :
             With(SemanticVersion_next(current_semver.value, semver_significance), LAMBDA next_semver :
             IF next_semver.kind = "raise"
             THEN [outcome |-> next_semver, calls |-> calls]
             ELSE [outcome |-> Returned(RepositorySummary(current_id,
                                   to_tag(next_semver.value),
                                   to_version(next_semver.value), msgs)),
                   calls |-> calls]))
        ELSE [outcome |-> Returned(RepositorySummary(current_id, tag,
                              to_version(current_semver.value), msgs)),
              calls |-> calls])))))))

\* Returns the outcome and the git commands that were run.
collect_repository_summary(log, refs) ==
    LET current_id == log[1].commit_id
        first_calls == << GitCall("show-ref --tags", 0, <<>>),
                          GitCall("rev-parse HEAD", 0, <<>>) >>
    IN  With(query_tag_commits(refs), LAMBDA all_tags :
        With(query_local_repository_commits_to_existing_tag_from_id(
                 log, current_id, all_tags), LAMBDA query :
        With(first_calls \o query.calls, LAMBDA calls :
        IF query.outcome.kind = "raise"
        THEN [outcome |-> query.outcome, calls |-> calls]
        ELSE
        With(query.outcome.value[1], LAMBDA tag :
        With(query.outcome.value[2], LAMBDA msgs :
        With(SemanticVersion_make(tag), LAMBDA current_semver :
        IF current_semver.kind = "raise"
        THEN [outcome |-> current_semver, calls |-> calls]
        ELSE IF msgs # <<>>
        THEN With(determine_semver_implication_on_list(
                      msgs, NoArg, NoArg, NoArg, MINOR_INDEX), LAMBDA semver_significance :
             With(SemanticVersion_next(current_semver.value, semver_significance), LAMBDA next_semver :
             IF next_semver.kind = "raise"
             THEN [outcome |-> next_semver, calls |-> calls]
             ELSE [outcome |-> Returned(RepositorySummary(current_id,
                                   to_tag(next_semver.value),
                                   to_version(next_semver.value), msgs)),
                   calls |-> calls]))
        ELSE [outcome |-> Returned(RepositorySummary(current_id, tag,
                              to_version(current_semver.value), msgs)),
              calls |-> calls]))))))

-----------------------------------------------------------------------------
(* Lines and messages the models draw their inputs from *)

L_random      == <<"random", " ", "text">>
L_fix         == <<"fix", ":", " ", "a">>
L_feat        == <<"feat", ":", " ", "b">>
L_fix_scoped  == <<"fix", "(", "x", ")", ":", " ", "y">>
L_feat_scoped == <<"feat", "(", "x", ")", ":", " ", "y">>
L_style       == <<" ", " ", "*", "style", "(", "x", ")", ":", " ", "z">>
L_breaking    == <<"chore", ":", " ", "BREAKING", " ", "CHANGE", ":", " ", "z">>
L_breaking2   == <<"BREAKING", " ", "CHANGE">>

CommitIdOf(i) ==
    CASE i = 1 -> "c1" [] i = 2 -> "c2" [] i = 3 -> "c3" [] i = 4 -> "c4"
      [] OTHER -> "c5"

\* The i-th record of a list, with the given message text
RecordAt(i, message) == CommitMessage(<<CommitIdOf(i)>>, <<"al">>, <<"d1">>, message)

\* Lists of at most max records whose messages come from pool
MessageLists(pool, max) ==
    UNION {{[i \in 1..n |-> RecordAt(i, f[i])] : f \in [1..n -> pool]} :
              n \in 0..max}

\* Message texts of 1..max lines over alphabet that keep the CommitMessage
\* invariant: no blank line first or last
Texts(alphabet, max) ==
    UNION {{t \in [1..n -> alphabet] : ~IsBlank(t[1]) /\ ~IsBlank(t[n])} :
              n \in 1..max}

Idle_semver ==
    /\ semver = SemanticVersion(<<"version">>, 0, 0, 0)
    /\ at_index = None
    /\ next_result = Idle

Idle_message ==
    /\ msgs_in = <<>>
    /\ major_rules = NoArg
    /\ minor_rules = NoArg
    /\ patch_rules = NoArg
    /\ default_index = MINOR_INDEX
    /\ each_implication = Idle
    /\ list_implication = Idle
    /\ summaries_result = Idle

Idle_repo ==
    /\ repo_log = <<>>
    /\ repo_refs = <<>>
    /\ git_calls = <<>>
    /\ summary_result = Idle

Idle_unpack ==
    /\ log_text = EmptyText
    /\ parse_result = Idle
    /\ commits_result = Idle
    /\ normalized_result = Idle

Idle_tag ==
    /\ commit_tags_in = <<>>
    /\ newest_tag_map = Idle
    /\ query_result = Idle
    /\ tag_text = Idle
    /\ make_result = Idle

Idle_clone ==
    /\ clone_args = [upstream_url |-> NoArg, commit |-> NoArg, branch |-> NoArg,
                     default_branch |-> NoArg]
    /\ clone_remaining = <<>>
    /\ clone_attempts = <<>>
    /\ clone_result = Idle

Idle_auth ==
    /\ os_environ = NoArg
    /\ GITHUB_TOKEN = NoArg
    /\ runners = <<>>
    /\ subprocesses = <<>>
    /\ stash_calls = <<>>

Idle_ext == Idle_unpack /\ Idle_tag /\ Idle_clone /\ Idle_auth

-----------------------------------------------------------------------------
(* Inputs of the SemanticVersion model *)

SeriesNames == {<<"version">>, <<"release">>}

Versions ==
    {SemanticVersion(s, ma, mi, pa) :
        s \in SeriesNames, ma \in 0..MaxNum, mi \in 0..MaxNum, pa \in 0..MaxNum}

\* None, the four *_INDEX values and one integer past them
IndexArgs == {None} \cup (TAG_INDEX..(PATCH_INDEX + 1))

InitSemVer ==
    /\ semver \in Versions
    /\ at_index \in IndexArgs
    /\ next_result = Idle
    /\ Idle_message
    /\ Idle_repo
    /\ Idle_ext
    /\ pc = "ready"

\* next_result = semver.next(at_index)
CallNext ==
    /\ pc = "ready"
    /\ next_result' = SemanticVersion_next(semver, at_index)
    /\ pc' = "done"
    /\ UNCHANGED <<semver, at_index, messageVars, repoVars, extVars>>

SpecSemVer == InitSemVer /\ [][CallNext]_vars

\* C6: next() at PATCH_INDEX adds one to patch only; at MINOR_INDEX it adds one
\* to minor and sets patch to 0; at MAJOR_INDEX it adds one to major and sets
\* minor and patch to 0; the series name is the one of the receiver.
C6_SuccessorArithmetic ==
    (pc = "done" /\ at_index \in {MAJOR_INDEX, MINOR_INDEX, PATCH_INDEX}) =>
        /\ next_result.kind = "return"
        /\ next_result.value.series_name = semver.series_name
        /\ at_index = PATCH_INDEX =>
               /\ next_result.value.major = semver.major
               /\ next_result.value.minor = semver.minor
               /\ next_result.value.patch = semver.patch + 1
        /\ at_index = MINOR_INDEX =>
               /\ next_result.value.major = semver.major
               /\ next_result.value.minor = semver.minor + 1
               /\ next_result.value.patch = 0
        /\ at_index = MAJOR_INDEX =>
               /\ next_result.value.major = semver.major + 1
               /\ next_result.value.minor = 0
               /\ next_result.value.patch = 0

\* C6, second half: calling next() leaves the receiver as it was.
C6_ReceiverUnchanged == [][semver' = semver]_vars

C6_Witness ==
    /\ pc = "done"
    /\ at_index = MINOR_INDEX
    /\ semver = SemanticVersion(<<"release">>, 1, 2, 2)
    /\ next_result = Returned(SemanticVersion(<<"release">>, 1, 3, 0))

\* C7: next() raises ValueError('Invalid index=...') and returns no version
\* for every index other than MAJOR_INDEX, MINOR_INDEX and PATCH_INDEX,
\* TAG_INDEX (the series) and None among them.
C7_InvalidBumpLevel ==
    (pc = "done" /\ at_index \notin {MAJOR_INDEX, MINOR_INDEX, PATCH_INDEX}) =>
        /\ next_result.kind = "raise"
        /\ next_result.exc = "ValueError"
        /\ next_result.what = "Invalid index"
        /\ next_result.arg = at_index

C7_Witness ==
    /\ pc = "done"
    /\ at_index = TAG_INDEX
    /\ semver.patch > 0
    /\ next_result.kind = "raise"

-----------------------------------------------------------------------------
(* Severity classification: determine_semver_implication{,_on_list} *)

\* re.compile(r'BREAKING'), a caller's pattern without a capture group
RE_BREAKING == Regex("contains", <<"BREAKING">>, {}, 0)

\* re.compile(r'^\s*(?:\*\s+)?(style[\(:].*)', re.MULTILINE)
RE_STYLE == Regex("type", <<>>, {"style"}, 1)

ClassifyPool ==
    { <<L_fix_scoped>>, <<L_feat_scoped>>, <<L_breaking>>, <<L_random>>,
      <<L_fix>>, <<L_style>>,
      <<L_feat_scoped, L_empty, L_fix_scoped>>,
      <<L_random, L_fix_scoped, L_breaking2>> }

InitClassify ==
    /\ Idle_semver
    /\ Idle_repo
    /\ Idle_ext
    /\ msgs_in \in MessageLists(ClassifyPool, MaxMsgs)
    /\ major_rules \in {NoArg, Arg(<<RE_BREAKING>>), Arg(<<>>)}
    /\ minor_rules = NoArg
    /\ patch_rules \in {NoArg, Arg(<<RE_STYLE>>)}
    /\ default_index \in {MAJOR_INDEX, MINOR_INDEX, PATCH_INDEX}
    /\ each_implication = Idle
    /\ list_implication = Idle
    /\ summaries_result = Idle
    /\ pc = "ready"

\* message.determine_semver_implication(...) for every message of the list
ClassifyEach ==
    /\ pc = "ready"
    /\ each_implication' =
           [i \in 1..Len(msgs_in) |->
               determine_semver_implication(msgs_in[i], major_rules,
                   minor_rules, patch_rules, default_index)]
    /\ pc' = "each"
    /\ UNCHANGED <<semverVars, repoVars, extVars, msgs_in, major_rules, minor_rules, patch_rules,
                   default_index, list_implication, summaries_result>>

\* CommitMessage.determine_semver_implication_on_list(msgs_in, ...)
ClassifyList ==
    /\ pc = "each"
    /\ list_implication' =
           determine_semver_implication_on_list(msgs_in, major_rules,
               minor_rules, patch_rules, default_index)
    /\ pc' = "done"
    /\ UNCHANGED <<semverVars, repoVars, extVars, msgs_in, major_rules, minor_rules, patch_rules,
                   default_index, each_implication, summaries_result>>

SpecClassify == InitClassify /\ [][ClassifyEach \/ ClassifyList]_vars

\* The rule sets in force: the argument, or the default when it is None
RulesInForce(arg, default) == IF arg = NoArg THEN default ELSE arg[1]

\* Some pattern of the rule set matches the message
SetMatches(rules, message) ==
    \E k \in 1..Len(rules) : RegexSearch(rules[k], message)

\* The severity of the first of MAJOR, MINOR, PATCH whose rule set has a
\* matching pattern, the default when none has
FirstMatchingSet(message) ==
    IF SetMatches(RulesInForce(major_rules, DEFAULT_MAJOR_REGEXS), message)
    THEN MAJOR_INDEX
    ELSE IF SetMatches(RulesInForce(minor_rules, DEFAULT_MINOR_REGEXS), message)
    THEN MINOR_INDEX
    ELSE IF SetMatches(RulesInForce(patch_rules, DEFAULT_PATCH_REGEXS), message)
    THEN PATCH_INDEX
    ELSE default_index

\* C8: classify returns the severity of the first rule set, in the order MAJOR,
\* MINOR, PATCH, that has a pattern matching the message, and the default
\* severity exactly when no rule set matches.
C8_FirstMatchingSetWins ==
    pc \in {"each", "done"} =>
        \A i \in 1..Len(msgs_in) :
            each_implication[i] = FirstMatchingSet(msgs_in[i].message)

\* C9: for a non-empty list the aggregate is the most significant (least
\* index) of the implications of its messages, whatever their order, and is
\* one of MAJOR, MINOR, PATCH; None is returned only for the empty list.
C9_MostSignificantOfList ==
    pc = "done" =>
        /\ msgs_in = <<>> <=> list_implication = None
        /\ msgs_in # <<>> =>
              /\ list_implication \in {MAJOR_INDEX, MINOR_INDEX, PATCH_INDEX}
              /\ \E i \in 1..Len(msgs_in) :
                     list_implication = each_implication[i]
              /\ \A i \in 1..Len(msgs_in) :
                     list_implication <= each_implication[i]

C9_Witness ==
    /\ pc = "done"
    /\ Len(msgs_in) = 2
    /\ each_implication[1] = MAJOR_INDEX
    /\ each_implication[2] = PATCH_INDEX
    /\ list_implication = MAJOR_INDEX

-----------------------------------------------------------------------------
(* Normalization: _unpack_embedded_summaries *)

NormalizeAlphabet == {L_empty, L_random, L_fix_scoped, L_style}

\* Lists of at most MaxMsgs records: one of them with any text of at most
\* MaxLines lines, the others with one of two texts
NormalizeLists ==
    {<<>>} \cup
    UNION {{[i \in 1..n |-> RecordAt(i, IF i = j THEN text ELSE f[i])] :
               j \in 1..n, text \in Texts(NormalizeAlphabet, MaxLines),
               f \in [1..n -> {<<L_random>>, <<L_fix_scoped, L_style>>}]} :
              n \in 1..MaxMsgs}

InitNormalize ==
    /\ Idle_semver
    /\ Idle_repo
    /\ Idle_ext
    /\ msgs_in \in NormalizeLists
    /\ major_rules = NoArg
    /\ minor_rules = NoArg
    /\ patch_rules = NoArg
    /\ default_index = MINOR_INDEX
    /\ each_implication = Idle
    /\ list_implication = Idle
    /\ summaries_result = Idle
    /\ pc = "ready"

\* summaries_result = CommitMessage._unpack_embedded_summaries(msgs_in)
UnpackEmbeddedSummaries ==
    /\ pc = "ready"
    /\ summaries_result' = unpack_embedded_summaries(msgs_in)
    /\ pc' = "summaries"
    /\ UNCHANGED <<semverVars, repoVars, extVars, msgs_in, major_rules, minor_rules, patch_rules,
                   default_index, each_implication, list_implication>>

SpecNormalize == InitNormalize /\ [][UnpackEmbeddedSummaries]_vars

\* The (1-based) lines of a text that are conventional summary lines
SummaryLines(text) == {k \in 1..Len(text) : EMBEDDED_SUMMARY_MATCHER(text[k])}

\* The records of the output that carry the given commit id
BlocksOf(output, commit_id) ==
    {j \in 1..Len(output) : output[j].commit_id = commit_id}

\* C10: a record with k >= 1 summary lines, the first of them not being the
\* first line of the message, yields k + 1 records: the text before the first
\* summary line is one of them, so no text of the message is lost.
C10_LeadingTextEmitted ==
    pc = "summaries" =>
        \A i \in 1..Len(msgs_in) :
            LET text == msgs_in[i].message
                k == Cardinality(SummaryLines(text))
                first == CHOOSE m \in SummaryLines(text) :
                             \A n \in SummaryLines(text) : m <= n
                blocks == BlocksOf(summaries_result, msgs_in[i].commit_id)
            IN  (k >= 1 /\ 1 \notin SummaryLines(text)) =>
                    /\ Cardinality(blocks) = k + 1
                    /\ \E j \in blocks :
                           summaries_result[j].message =
                               RStripText(SubSeq(text, 1, first - 1))

\* The blocks Pass B is to make of one record: the record itself when no line
\* is a summary line; else one block per summary line, from that line up to
\* the line before the next summary line, trailing white space trimmed
SummaryBlocksOf(record) ==
    LET text == record.message
        at == SummaryLines(text)
        EndOf(m) == IF \E n \in at : n > m
                    THEN (CHOOSE n \in at : n > m /\ \A o \in at : o > m => n <= o) - 1
                    ELSE Len(text)
        RECURSIVE From(_)
        From(m) == IF m > Len(text) THEN <<>>
                   ELSE IF m \in at
                   THEN <<CommitMessage(record.commit_id, record.author, record.date,
                                        RStripText(SubSeq(text, m, EndOf(m))))>>
                            \o From(m + 1)
                   ELSE From(m + 1)
    IN  IF at = {} THEN <<record>> ELSE From(1)

RECURSIVE SummaryBlocks(_)
SummaryBlocks(records) ==
    IF records = <<>> THEN <<>>
    ELSE SummaryBlocksOf(Head(records)) \o SummaryBlocks(Tail(records))

\* C17: Pass B gives every input record at least one output record; the
\* records made of one input carry its commit_id, author and date and stand
\* together, in the order of the message and of the inputs; a record without
\* a summary line comes out once, unchanged; with k >= 1 summary lines every
\* block starts at a summary line, ends before the next one, has its trailing
\* white space trimmed and so holds exactly one summary line.
C17_SummaryBlocks ==
    pc = "summaries" =>
        /\ summaries_result = SummaryBlocks(msgs_in)
        /\ \A i \in 1..Len(msgs_in) :
               LET own == BlocksOf(summaries_result, msgs_in[i].commit_id)
                   k == Cardinality(SummaryLines(msgs_in[i].message))
               IN  /\ own # {}
                   /\ \A a \in own, b \in own, j \in 1..Len(summaries_result) :
                          (a <= j /\ j <= b) => j \in own
                   /\ \A j \in own :
                          /\ summaries_result[j].author = msgs_in[i].author
                          /\ summaries_result[j].date = msgs_in[i].date
                   /\ k = 0 => \A j \in own : summaries_result[j] = msgs_in[i]
                   /\ k = 0 => Cardinality(own) = 1
                   /\ k >= 1 =>
                          /\ Cardinality(own) = k
                          /\ \A j \in own :
                                 /\ SummaryLines(summaries_result[j].message) = {1}
                                 /\ ~IsBlank(summaries_result[j].message[
                                        Len(summaries_result[j].message)])

C17_Witness ==
    /\ pc = "summaries"
    /\ Len(msgs_in) = 2
    /\ msgs_in[1].message = <<L_fix_scoped, L_empty, L_style>>
    /\ msgs_in[2].message = <<L_random>>
    /\ summaries_result = << RecordAt(1, <<L_fix_scoped>>), RecordAt(1, <<L_style>>),
                             RecordAt(2, <<L_random>>) >>

-----------------------------------------------------------------------------
(* The repository summary: collect_repository_summary *)

T_version_1_0_0  == <<"version", "-", "1", ".", "0", ".", "0">>
T_version_9_0_0  == <<"version", "-", "9", ".", "0", ".", "0">>
T_version_10_0_0 == <<"version", "-", "1", "0", ".", "0", ".", "0">>
T_release_1_0_0  == <<"release", "-", "1", ".", "0", ".", "0">>

TagPool == {T_version_1_0_0, T_version_9_0_0, T_version_10_0_0, T_release_1_0_0}

B_fix   == <<L_fix>>
B_feat  == <<L_feat>>
B_lead  == <<L_random, L_fix_scoped>>

BodyPool == {B_fix, B_feat, B_lead}

\* A commit of a branch other than the one HEAD is on
OtherCommitId == <<"c9">>

Commit(commit_id, body) ==
    [commit_id |-> commit_id, author |-> <<"al">>, date |-> <<"d1">>, body |-> body]

\* Histories of 1..MaxLog commits, HEAD first
Logs ==
    UNION {{[k \in 1..n |-> Commit(<<CommitIdOf(k)>>, f[k])] : f \in [1..n -> BodyPool]} :
              n \in 1..MaxLog}

\* 1..MaxRefs tags (a tag name is unique in a repository) on the commits of
\* the log or on the other commit, in the order git prints them: show-ref
\* lists the refs sorted by name
RefLists(log) ==
    LET targets == {log[k].commit_id : k \in 1..Len(log)} \cup {OtherCommitId}
        refs == {CommitTag(c, t) : c \in targets, t \in TagPool}
    IN  UNION {{r \in [1..m -> refs] :
                   \A i, j \in 1..m : i < j => TagLess(r[i].tag, r[j].tag)} :
                  m \in 1..MaxRefs}

InitSummary ==
    /\ Idle_semver
    /\ Idle_message
    /\ Idle_ext
    /\ repo_log \in Logs
    /\ repo_refs \in RefLists(repo_log)
    /\ git_calls = <<>>
    /\ summary_result = Idle
    /\ pc = "ready"

\* summary_result = runner.collect_repository_summary(git_dir)
CollectRepositorySummary ==
    /\ pc = "ready"
    /\ \E run \in {collect_repository_summary(repo_log, repo_refs)} :
           /\ summary_result' = run.outcome
           /\ git_calls' = git_calls \o run.calls
    /\ pc' = "done"
    /\ UNCHANGED <<semverVars, messageVars, extVars, repo_log, repo_refs>>

Spec == InitSummary /\ [][CollectRepositorySummary]_vars

Head_id == repo_log[1].commit_id

\* The tags of the repository that sit on the commit
TagsOn(commit_id) ==
    {repo_refs[k].tag : k \in {j \in 1..Len(repo_refs) : repo_refs[j].commit_id = commit_id}}

\* ... and have the form version-<digits>.<digits>.<digits>
VersionTagsOn(commit_id) == {t \in TagsOn(commit_id) : VersionTagPattern(t)}

\* The greatest of a set of tags in the order of their text
GreatestTag(tags) == CHOOSE t \in tags : \A u \in tags : u = t \/ TagLess(u, t)

\* The first entry of HEAD's log that carries a tag of Tagged(_), 0 if none
FirstTagged(Tagged(_)) ==
    LET hits == {k \in 1..Len(repo_log) : Tagged(repo_log[k].commit_id) # {}}
    IN  IF hits = {} THEN 0 ELSE CHOOSE k \in hits : \A j \in hits : k <= j

\* The medium-format log requests among the git commands run
MediumCalls == {k \in 1..Len(git_calls) : git_calls[k].command = "log --pretty=medium"}

\* The records of the first n commits of the log, as the parser returns them
ParsedPending(n) == make_list_from_result(GitLogMedium(repo_log, n)).value

\* The summary proposed from baseline tag T for the pending records
Proposed(T, pending) ==
    LET successor == SemanticVersion_next(SemanticVersion_make(T).value,
                         determine_semver_implication_on_list(pending, NoArg, NoArg, NoArg, MINOR_INDEX)).value
    IN  [tag |-> to_tag(successor), version |-> to_version(successor)]

\* C1 as stated: HEAD carries no tag and the first tagged commit of its
\* ancestry carries the release tag T (of any series, release-1.0.0 say); the
\* summary then has commit_id = HEAD and the tag and version text of
\* successor(parse(T), S), S the aggregate severity of the pending commits.
C1_AnyReleaseTagBaseline ==
    (pc = "done" /\ TagsOn(Head_id) = {} /\ FirstTagged(TagsOn) # 0) =>
        LET b == FirstTagged(TagsOn)
            T == GreatestTag(TagsOn(repo_log[b].commit_id))
            p == Proposed(T, ParsedPending(b - 1))
        IN  /\ summary_result.kind = "return"
            /\ summary_result.value.commit_id = Head_id
            /\ summary_result.value.tag = p.tag
            /\ summary_result.value.version = p.version

\* C1 amended: the same for tags of the form version-<digits>.<digits>.<digits>,
\* the only tags collect_repository_summary reads: baseline version-1.0.0 with
\* a fix: and a feat: commit pending gives tag version-1.1.0, version 1.1.0.
C1_VersionTagBaseline ==
    (pc = "done" /\ VersionTagsOn(Head_id) = {} /\ FirstTagged(VersionTagsOn) # 0) =>
        LET b == FirstTagged(VersionTagsOn)
            T == GreatestTag(VersionTagsOn(repo_log[b].commit_id))
            p == Proposed(T, ParsedPending(b - 1))
        IN  /\ summary_result.kind = "return"
            /\ summary_result.value.commit_id = Head_id
            /\ summary_result.value.tag = p.tag
            /\ summary_result.value.version = p.version

C1_Witness ==
    /\ pc = "done"
    /\ Len(repo_log) = 3
    /\ repo_log[1].body = B_feat
    /\ repo_log[2].body = B_fix
    /\ repo_refs = <<CommitTag(<<"c3">>, T_version_1_0_0)>>
    /\ summary_result.kind = "return"
    /\ summary_result.value.commit_id = <<"c1">>
    /\ summary_result.value.tag = <<"version", "-", "1", ".", "1", ".", "0">>
    /\ summary_result.value.version = <<"1", ".", "1", ".", "0">>
    /\ Len(summary_result.value.commit_messages) = 2

\* C2: in a returned summary the commits are empty exactly when HEAD is in the
\* mapping from commit id to tag; then tag is the tag the mapping has for HEAD
\* and version the version text of its parse; otherwise the commits are not
\* empty.
C2_EmptyCommitsIffHeadTagged ==
    (pc = "done" /\ summary_result.kind = "return") =>
        /\ summary_result.value.commit_messages = <<>> <=> VersionTagsOn(Head_id) # {}
        /\ VersionTagsOn(Head_id) # {} =>
              /\ summary_result.value.tag = GreatestTag(VersionTagsOn(Head_id))
              /\ summary_result.value.version =
                     to_version(SemanticVersion_make(summary_result.value.tag).value)
        /\ VersionTagsOn(Head_id) = {} =>
              Len(summary_result.value.commit_messages) >= 1

C2_Witness ==
    /\ pc = "done"
    /\ VersionTagsOn(Head_id) = {T_version_9_0_0, T_version_10_0_0}
    /\ summary_result.kind = "return"
    /\ summary_result.value.commit_messages = <<>>
    /\ summary_result.value.tag = T_version_9_0_0
    /\ summary_result.value.version = <<"9", ".", "0", ".", "0">>

C5_WalkStopsAtFirstTagged ==
    (pc = "done" /\ VersionTagsOn(Head_id) = {} /\ FirstTagged(VersionTagsOn) # 0) =>
        LET b == FirstTagged(VersionTagsOn)
            T == GreatestTag(VersionTagsOn(repo_log[b].commit_id))
        IN  /\ Cardinality(MediumCalls) = 1
            /\ \A k \in MediumCalls :
                   /\ git_calls[k].count = b - 1
                   /\ git_calls[k].id = Head_id
            /\ summary_result.kind = "return"
            /\ [k \in 1..Len(summary_result.value.commit_messages) |->
                   summary_result.value.commit_messages[k].commit_id]
                 = [k \in 1..(b - 1) |-> repo_log[k].commit_id]
            /\ summary_result.value.tag =
                   Proposed(T, summary_result.value.commit_messages).tag

C5_Witness ==
    /\ pc = "done"
    /\ Len(repo_log) = 3
    /\ VersionTagsOn(<<"c1">>) = {}
    /\ VersionTagsOn(<<"c2">>) = {T_version_1_0_0}
    /\ VersionTagsOn(<<"c3">>) = {T_version_9_0_0}
    /\ summary_result.kind = "return"
    /\ Len(summary_result.value.commit_messages) = 1
    /\ \E k \in MediumCalls : git_calls[k].count = 1

-----------------------------------------------------------------------------
(* The parser and Pass A: make_list_from_result, _unpack_embedded_commits *)
(* and normalize_message_list on what the parser returns                  *)

MaxIndent == 1         \* a nested log is indented by 0..MaxIndent more spaces
MaxNested == 2         \* commit blocks of a nested log

\* The commit id of the i-th block of a nested log
NestedId(i) == CASE i = 1 -> "abc" [] i = 2 -> "def" [] OTHER -> "a"

\* The i-th block of a nested log ("git log --pretty=medium" of the merged
\* commits) as it stands in the message of the merge: every line indented by
\* indent more spaces; in a block that is not uniform the Author and Date
\* lines are indented by two spaces more than the commit line
NestedBlock(i, indent, uniform) ==
    LET deeper == IF uniform THEN indent ELSE indent + 2
    IN  << Spaces(indent) \o <<"commit", " ", NestedId(i)>>,
           Spaces(deeper) \o <<"Author", ":", " ", "bo">>,
           Spaces(deeper) \o <<"Date", ":", " ", " ", " ", "d2">>,
           L_empty,
           Spaces(indent + 4) \o (IF i % 2 = 1 THEN L_fix ELSE L_feat) >>

\* Blocks from..n of a nested log, a blank line between two blocks; block
\* number odd (0 for none) is the one that is not uniform
RECURSIVE NestedLog(_, _, _, _)
NestedLog(from, n, indent, odd) ==
    IF from > n THEN <<>>
    ELSE NestedBlock(from, indent, from # odd)
             \o (IF from < n THEN <<L_empty>> ELSE <<>>)
             \o NestedLog(from + 1, n, indent, odd)

\* The text a merge commit starts with
L_merge == <<"Merge", " ", "x">>

\* Messages of merge commits: optional text, the nested log, optionally a
\* line at the indentation of the message itself
NestedBodies ==
    {lead \o NestedLog(1, n, indent, odd) \o trail :
        lead \in {<<>>, <<L_merge>>},
        n \in 1..MaxNested,
        indent \in 0..MaxIndent,
        odd \in 0..MaxNested,
        trail \in {<<>>, <<L_random>>}}

\* Messages without a nested log
PlainBodies ==
    { <<L_fix>>, <<L_random>>, <<L_random, L_fix_scoped>>,
      <<L_fix_scoped, L_random>>, <<L_fix_scoped, L_feat_scoped>> }

\* What the commits next to the one under study carry
NeighbourBodies ==
    { <<L_fix>>, NestedLog(1, 1, MaxIndent, 0),
      NestedLog(1, 1, MaxIndent, 0) \o <<L_random>> }

\* Histories of 1..MaxMsgs commits: one of them with any body
UnpackLogs ==
    UNION {{[k \in 1..n |-> Commit(<<CommitIdOf(k)>>,
                                   IF k = j THEN body ELSE f[k])] :
               j \in 1..n, body \in PlainBodies \cup NestedBodies,
               f \in [1..n -> NeighbourBodies]} :
              n \in 1..MaxMsgs}

\* "git log --pretty=medium" of the history; with bad in 1..Len(log), the
\* Author line of that commit is missing from the text
RECURSIVE LogTextOf(_, _)
LogTextOf(log, bad) ==
    IF log = <<>> THEN <<>>
    ELSE LET entry == GitLogMedium(<<Head(log)>>, 1)
         IN  (IF bad = 1 THEN <<entry[1]>> \o SubSeq(entry, 3, Len(entry))
              ELSE entry)
                 \o LogTextOf(Tail(log), bad - 1)

InitUnpack ==
    /\ Idle_semver
    /\ Idle_message
    /\ Idle_tag /\ Idle_clone /\ Idle_auth
    /\ repo_log \in UnpackLogs
    /\ repo_refs = <<>>
    /\ git_calls = <<>>
    /\ summary_result = Idle
    /\ \E bad \in 0..Len(repo_log) : log_text = LogTextOf(repo_log, bad)
    /\ parse_result = Idle
    /\ commits_result = Idle
    /\ normalized_result = Idle
    /\ pc = "ready"

\* parse_result = CommitMessage.make_list_from_result(log_text); the list
\* returned is what the two next calls are given
ParseLog ==
    /\ pc = "ready"
    /\ \E parsed \in {make_list_from_result(log_text)} :
           /\ parse_result' = parsed
           /\ msgs_in' = IF parsed.kind = "return" THEN parsed.value ELSE msgs_in
    /\ pc' = "parsed"
    /\ UNCHANGED <<semverVars, repoVars, tagVars, cloneVars, authVars,
                   major_rules, minor_rules, patch_rules, default_index,
                   each_implication, list_implication, summaries_result,
                   log_text, commits_result, normalized_result>>

\* commits_result = CommitMessage._unpack_embedded_commits(msgs_in)
UnpackEmbeddedCommits ==
    /\ pc = "parsed"
    /\ parse_result.kind = "return"
    /\ commits_result' = unpack_embedded_commits(msgs_in)
    /\ pc' = "commits"
    /\ UNCHANGED <<semverVars, messageVars, repoVars, tagVars, cloneVars,
                   authVars, log_text, parse_result, normalized_result>>

\* normalized_result = CommitMessage.normalize_message_list(msgs_in)
NormalizeMessageList ==
    /\ pc = "commits"
    /\ normalized_result' = normalize_message_list(msgs_in)
    /\ pc' = "normalized"
    /\ UNCHANGED <<semverVars, messageVars, repoVars, tagVars, cloneVars,
                   authVars, log_text, parse_result, commits_result>>

SpecUnpack ==
    InitUnpack /\ [][ParseLog \/ UnpackEmbeddedCommits \/ NormalizeMessageList]_vars

\* The number of spaces a line starts with
Indent(line) ==
    LET nonsp == {k \in 1..Len(line) : line[k] # " "}
    IN  IF nonsp = {} THEN Len(line)
        ELSE (CHOOSE k \in nonsp : \A j \in nonsp : k <= j) - 1

\* Lines k, k+1, k+2 of the message are a commit line with a hexadecimal id,
\* an Author line and a Date line
HeaderShapeAt(text, k) ==
    /\ k + 2 <= Len(text)
    /\ Len(LStripLine(text[k])) = 3
    /\ StartsWith(LStripLine(text[k]), <<"commit", " ">>)
    /\ LStripLine(text[k])[3] \in HexWords
    /\ StartsWith(LStripLine(text[k + 1]), <<"Author", ":", " ">>)
    /\ Len(LStripLine(text[k + 1])) > 3
    /\ StartsWith(LStripLine(text[k + 2]), <<"Date", ":", " ", " ", " ">>)
    /\ Len(LStripLine(text[k + 2])) > 5

\* ... all three indented by the same prefix
UniformHeaderAt(text, k) ==
    /\ HeaderShapeAt(text, k)
    /\ Indent(text[k + 1]) = Indent(text[k])
    /\ Indent(text[k + 2]) = Indent(text[k])

\* The line of the first embedded header of a message, 0 without one
FirstHeaderLine(text) ==
    LET at == {k \in 1..Len(text) : HeaderShapeAt(text, k)}
    IN  IF at = {} THEN 0 ELSE CHOOSE k \in at : \A j \in at : k <= j

\* The length of the prefix P of the first embedded header
HeaderPrefix(text) == Indent(text[FirstHeaderLine(text)])

\* Every line after the first embedded header is blank or starts with P
LinesConform(text) ==
    \A j \in (FirstHeaderLine(text) + 1)..Len(text) :
        text[j] = <<>> \/ StartsWith(text[j], Spaces(HeaderPrefix(text)))

\* The text from the embedded header on, |P| characters taken off each line
\* that is not blank
Dedent(text) ==
    LET k == FirstHeaderLine(text)
        p == HeaderPrefix(text)
    IN  [j \in 1..(Len(text) - k + 1) |->
            IF text[k + j - 1] = <<>> THEN <<>>
            ELSE SubSeq(text[k + j - 1], p + 1, Len(text[k + j - 1]))]

\* The ids of the embedded headers of a message, in the order of the text
RECURSIVE HeaderIdsFrom(_, _)
HeaderIdsFrom(text, k) ==
    IF k > Len(text) THEN <<>>
    ELSE (IF HeaderShapeAt(text, k) THEN << <<LStripLine(text[k])[3]>> >> ELSE <<>>)
             \o HeaderIdsFrom(text, k + 1)

\* The three cases of Pass A for one record: no embedded header; a header and
\* a later line that breaks the indentation; a uniform header, all later
\* lines conforming, and a dedented text that the parser accepts
NotNested(record) == FirstHeaderLine(record.message) = 0

Inconsistent(record) ==
    /\ FirstHeaderLine(record.message) # 0
    /\ ~LinesConform(record.message)

Expands(record) ==
    /\ FirstHeaderLine(record.message) # 0
    /\ UniformHeaderAt(record.message, FirstHeaderLine(record.message))
    /\ LinesConform(record.message)
    /\ make_list_from_result(Dedent(record.message)).kind = "return"

\* What Pass A is to put in the place of one record, and of a list
SplicedFor(record) ==
    IF Expands(record) THEN make_list_from_result(Dedent(record.message)).value
    ELSE <<record>>

RECURSIVE Spliced(_)
Spliced(records) ==
    IF records = <<>> THEN <<>>
    ELSE SplicedFor(Head(records)) \o Spliced(Tail(records))

\* C11: a record whose message has an embedded commit/Author/Date header
\* indented by P, every later line blank or starting with P, is replaced in
\* place by the records the parser makes of the text from the header on with
\* |P| characters taken off each non-blank line; the record itself and the text
\* before the header are not in the output, and the records carry the ids of
\* the nested headers, in their order.
C11_NestedLogReplacesRecord ==
    (/\ pc \in {"commits", "normalized"}
     /\ \A i \in 1..Len(msgs_in) :
            NotNested(msgs_in[i]) \/ Inconsistent(msgs_in[i]) \/ Expands(msgs_in[i])
     /\ \E i \in 1..Len(msgs_in) : Expands(msgs_in[i])) =>
        /\ commits_result = Returned(Spliced(msgs_in))
        /\ \A i \in 1..Len(msgs_in) :
               Expands(msgs_in[i]) =>
                   /\ \A j \in 1..Len(commits_result.value) :
                          /\ commits_result.value[j] # msgs_in[i]
                          /\ commits_result.value[j].commit_id # msgs_in[i].commit_id
                   /\ \A j \in 1..Len(SplicedFor(msgs_in[i])) :
                          \A n \in 1..Len(SplicedFor(msgs_in[i])[j].message) :
                              \A k \in 1..(FirstHeaderLine(msgs_in[i].message) - 1) :
                                  LStripLine(SplicedFor(msgs_in[i])[j].message[n])
                                      # LStripLine(msgs_in[i].message[k])
                   /\ [j \in 1..Len(SplicedFor(msgs_in[i])) |->
                          SplicedFor(msgs_in[i])[j].commit_id]
                          = HeaderIdsFrom(msgs_in[i].message, 1)

C11_Witness ==
    /\ pc = "commits"
    /\ Len(msgs_in) = 2
    /\ msgs_in[1].message =
           << Spaces(4) \o L_merge,
              Spaces(5) \o <<"commit", " ", "abc">>,
              Spaces(5) \o <<"Author", ":", " ", "bo">>,
              Spaces(5) \o <<"Date", ":", " ", " ", " ", "d2">>,
              L_empty,
              Spaces(9) \o L_fix,
              L_empty,
              Spaces(5) \o <<"commit", " ", "def">>,
              Spaces(5) \o <<"Author", ":", " ", "bo">>,
              Spaces(5) \o <<"Date", ":", " ", " ", " ", "d2">>,
              L_empty,
              Spaces(9) \o L_feat >>
    /\ commits_result =
           Returned(<< CommitMessage(<<"abc">>, <<"bo">>, <<"d2">>, <<Spaces(4) \o L_fix>>),
                       CommitMessage(<<"def">>, <<"bo">>, <<"d2">>, <<Spaces(4) \o L_feat>>),
                       RecordAt(2, <<Spaces(4) \o L_fix>>) >>)

\* C12: a record with an embedded header and a later line that is not blank
\* and does not start with the header's prefix is not unpacked and nothing is
\* raised for it: the output has the record once, as it was, and no record
\* made of its dedented lines; the other records are processed as usual.
C12_InconsistentIndentKeepsRecord ==
    (/\ pc \in {"commits", "normalized"}
     /\ \A i \in 1..Len(msgs_in) :
            NotNested(msgs_in[i]) \/ Inconsistent(msgs_in[i]) \/ Expands(msgs_in[i])
     /\ \E i \in 1..Len(msgs_in) : Inconsistent(msgs_in[i])) =>
        /\ commits_result.kind = "return"
        /\ commits_result.value = Spliced(msgs_in)
        /\ \A i \in 1..Len(msgs_in) :
               Inconsistent(msgs_in[i]) =>
                   LET own == BlocksOf(commits_result.value, msgs_in[i].commit_id)
                   IN  /\ Cardinality(own) = 1
                       /\ \A j \in own : commits_result.value[j] = msgs_in[i]
                       /\ Len(commits_result.value) =
                              1 + Len(Spliced(SubSeq(msgs_in, 1, i - 1)))
                                + Len(Spliced(SubSeq(msgs_in, i + 1, Len(msgs_in))))

C12_Witness ==
    /\ pc = "commits"
    /\ Len(msgs_in) = 2
    /\ msgs_in[1].message =
           << Spaces(5) \o <<"commit", " ", "abc">>,
              Spaces(5) \o <<"Author", ":", " ", "bo">>,
              Spaces(5) \o <<"Date", ":", " ", " ", " ", "d2">>,
              L_empty,
              Spaces(9) \o L_fix,
              Spaces(4) \o L_random >>
    /\ Expands(msgs_in[2])
    /\ commits_result =
           Returned(<< msgs_in[1],
                       CommitMessage(<<"abc">>, <<"bo">>, <<"d2">>, <<Spaces(4) \o L_fix>>) >>)

\* C13: normalize_message_list returns every record that has no embedded
\* commit header and at most one conventional summary line, wherever that
\* line sits in the message, as one record equal to the input.
C13_NormalizedInputUnchanged ==
    (pc = "normalized" /\ normalized_result.kind = "return") =>
        \A i \in 1..Len(msgs_in) :
            (/\ NotNested(msgs_in[i])
             /\ Cardinality(SummaryLines(msgs_in[i].message)) <= 1) =>
                LET own == BlocksOf(normalized_result.value, msgs_in[i].commit_id)
                IN  /\ Cardinality(own) = 1
                    /\ \A j \in own : normalized_result.value[j] = msgs_in[i]

\* The commit blocks of a log text: what follows each "commit " at the start
\* of a line, up to the next one
BlocksOfLog(text) == SplitEntries(StripText(text))

\* A block whose header has the commit id / Author / Date shape
BlockWellFormed(entry) ==
    /\ Len(entry) >= 3
    /\ Len(entry[1]) >= 1
    /\ StartsWith(entry[2], <<"Author", ":">>)
    /\ StartsWith(entry[3], <<"Date", ":">>)

\* C14: when one block of the log text has a header that is not of the
\* commit id / Author / Date shape, the failure stays with that block: the
\* records of the well-formed blocks of the same text are still produced.
C14_MalformedBlockConfined ==
    pc # "ready" =>
        LET blocks == BlocksOfLog(log_text)
        IN  (\E k \in 1..Len(blocks) : ~BlockWellFormed(blocks[k])) =>
                \A k \in 1..Len(blocks) :
                    BlockWellFormed(blocks[k]) =>
                        /\ parse_result.kind = "return"
                        /\ \E j \in 1..Len(parse_result.value) :
                               parse_result.value[j].commit_id = blocks[k][1]

-----------------------------------------------------------------------------
(* The mapping from commit id to tag of                                    *)
(* query_local_repository_commits_to_existing_tag_from_id                  *)

T_release_9_0_0  == <<"release", "-", "9", ".", "0", ".", "0">>
T_release_10_0_0 == <<"release", "-", "1", "0", ".", "0", ".", "0">>

MappingTagPool == {T_release_1_0_0, T_release_9_0_0, T_release_10_0_0, T_version_9_0_0}

\* Histories of 1..MaxLog commits that all carry the same message
MappingLogs ==
    {[k \in 1..n |-> Commit(<<CommitIdOf(k)>>, B_fix)] : n \in 1..MaxLog}

\* The commit_tags argument: 1..MaxRefs tag records in any order, every tag
\* name once, on commits of the log or on the other commit
TagRecords(log) ==
    LET targets == {log[k].commit_id : k \in 1..Len(log)} \cup {OtherCommitId}
        refs == {CommitTag(c, t) : c \in targets, t \in MappingTagPool}
    IN  UNION {{r \in [1..m -> refs] :
                   \A i, j \in 1..m : i # j => r[i].tag # r[j].tag} :
                  m \in 1..MaxRefs}

InitMapping ==
    /\ Idle_semver
    /\ Idle_message
    /\ Idle_unpack /\ Idle_clone /\ Idle_auth
    /\ repo_log \in MappingLogs
    /\ repo_refs = <<>>
    /\ git_calls = <<>>
    /\ summary_result = Idle
    /\ commit_tags_in \in TagRecords(repo_log)
    /\ newest_tag_map = Idle
    /\ query_result = Idle
    /\ tag_text = Idle
    /\ make_result = Idle
    /\ pc = "ready"

\* query_result = runner.query_local_repository_commits_to_existing_tag_from_id(
\*     git_dir, HEAD, commit_tags_in); newest_tag_map is id_to_newest_tag as
\* the loop over sorted(commit_tags) leaves it
QueryCommitsToExistingTag ==
    /\ pc = "ready"
    /\ \E run \in {query_local_repository_commits_to_existing_tag_from_id(
                       repo_log, repo_log[1].commit_id, commit_tags_in)} :
           /\ query_result' = run.outcome
           /\ git_calls' = git_calls \o run.calls
    /\ newest_tag_map' = NewestTags(Sorted(commit_tags_in), <<>>)
    /\ pc' = "done"
    /\ UNCHANGED <<semverVars, messageVars, unpackVars, cloneVars, authVars,
                   repo_log, repo_refs, summary_result, commit_tags_in,
                   tag_text, make_result>>

SpecMapping == InitMapping /\ [][QueryCommitsToExistingTag]_vars

\* The tags of the tag records given that sit on the commit
TagsGivenFor(commit_id) ==
    {commit_tags_in[k].tag :
        k \in {j \in 1..Len(commit_tags_in) : commit_tags_in[j].commit_id = commit_id}}

\* C15: the mapping has exactly the commit ids of the tag records, each with
\* the greatest tag text, in the order of the text, among the records with
\* that id, whatever the order of the records; a tagged HEAD is answered from
\* it (release-9.0.0, not release-10.0.0, when a commit carries both).
C15_MappingKeepsGreatestTagText ==
    pc = "done" =>
        /\ DOMAIN newest_tag_map =
               {commit_tags_in[k].commit_id : k \in 1..Len(commit_tags_in)}
        /\ \A id \in DOMAIN newest_tag_map :
               newest_tag_map[id] = GreatestTag(TagsGivenFor(id))
        /\ TagsGivenFor(Head_id) # {} =>
               query_result = Returned(<<GreatestTag(TagsGivenFor(Head_id)), <<>> >>)

C15_Witness ==
    /\ pc = "done"
    /\ commit_tags_in = << CommitTag(<<"c1">>, T_release_9_0_0),
                           CommitTag(<<"c1">>, T_release_10_0_0) >>
    /\ newest_tag_map = [id \in {<<"c1">>} |-> T_release_9_0_0]
    /\ query_result = Returned(<<T_release_9_0_0, <<>> >>)

-----------------------------------------------------------------------------
(* SemanticVersion.to_tag and SemanticVersion.make, one after the other *)

\* Series names: plain ones, one with a "-", ones that hold or end with what
\* looks like a version, and one made of a digit
RoundTripSeries ==
    { <<"version">>, <<"release">>, <<"a", "-", "b">>,
      <<"v", "-", "1", ".", "2", ".", "3">>,
      <<"v", "-", "1", ".", "2", ".", "3", "-">>,
      <<"v", "-", "1", ".", "2">>, <<"7">> }

\* Components: 0..MaxNum and one number of two digits
RoundTripNumbers == (0..MaxNum) \cup {10}

InitRoundTrip ==
    /\ semver \in {SemanticVersion(s, ma, mi, pa) :
                      s \in RoundTripSeries, ma \in RoundTripNumbers,
                      mi \in RoundTripNumbers, pa \in RoundTripNumbers}
    /\ at_index = None
    /\ next_result = Idle
    /\ Idle_message
    /\ Idle_repo
    /\ Idle_unpack /\ Idle_tag /\ Idle_clone /\ Idle_auth
    /\ pc = "ready"

\* tag_text = semver.to_tag()
FormatTag ==
    /\ pc = "ready"
    /\ tag_text' = to_tag(semver)
    /\ pc' = "tag"
    /\ UNCHANGED <<semverVars, messageVars, repoVars, unpackVars, cloneVars,
                   authVars, commit_tags_in, newest_tag_map, query_result,
                   make_result>>

\* make_result = SemanticVersion.make(tag_text)
MakeFromTag ==
    /\ pc = "tag"
    /\ make_result' = SemanticVersion_make(tag_text)
    /\ pc' = "done"
    /\ UNCHANGED <<semverVars, messageVars, repoVars, unpackVars, cloneVars,
                   authVars, commit_tags_in, newest_tag_map, query_result,
                   tag_text>>

SpecRoundTrip == InitRoundTrip /\ [][FormatTag \/ MakeFromTag]_vars

\* C16: SemanticVersion.make(v.to_tag()) returns v for every version v with
\* a series that is not empty and components that are not negative, series
\* with a "-" or with "-<digits>.<digits>.<digits>" in them included.
C16_FormatThenParseIsIdentity ==
    pc = "done" => make_result = Returned(semver)

C16_Witness ==
    /\ pc = "done"
    /\ semver = SemanticVersion(<<"v", "-", "1", ".", "2", ".", "3">>, 10, 0, 2)
    /\ tag_text = <<"v", "-", "1", ".", "2", ".", "3", "-", "1", "0", ".", "0", ".", "2">>
    /\ make_result = Returned(semver)

-----------------------------------------------------------------------------
(* GitRunner.clone_repository_to_path and GitRunner.__check_clone_branch *)

\* "if value:" for an optional string: None and '' are false
Truthy(arg) == arg # NoArg /\ arg[1] # <<>>

ORIGIN_URL == <<"https://host/owner/repo">>

\* __normalize_repo_url: a trailing '.git' does not count
normalize_repo_url(url) ==
    IF Len(url) >= 1 /\ url[Len(url)] = ".git" THEN SubSeq(url, 1, Len(url) - 1)
    ELSE url

is_same_repo(first, second) == normalize_repo_url(first) = normalize_repo_url(second)

\* How one "git clone ... -b <branch>" can end: retcode 0; a retcode other
\* than 0 with 'Remote branch <branch> not found' in stdout; a retcode other
\* than 0 with any other stdout
CloneOutcomes == {"ok", "not found", "failed"}

\* the iteration that goes on to the next branch after any failure
check_clone_branch_RetryAnyFailure(branches, remaining_branches, outcome) ==
    LET branch == Head(remaining_branches)
        rest == Tail(remaining_branches)
    IN  IF outcome = "ok"
        THEN [next |-> "return", remaining |-> rest, result |-> Idle]
        ELSE IF rest # <<>>
        THEN [next |-> "continue", remaining |-> rest, result |-> Idle]
        ELSE [next |-> "raise", remaining |-> rest,
              result |-> Raised("ValueError", "Branches do not exist", branches)]

\* One iteration of the "while True" of __check_clone_branch, given how the
\* clone command ended: what the loop does next, remaining_branches after
\* the pop(0), and the exception if one is raised
check_clone_branch(branches, remaining_branches, outcome) ==
    LET branch == Head(remaining_branches)
        rest == Tail(remaining_branches)
    IN  IF outcome = "ok"
        THEN [next |-> "return", remaining |-> rest, result |-> Idle]
        ELSE IF outcome # "not found"
        THEN [next |-> "raise", remaining |-> rest,
              result |-> Raised("CalledProcessError", "clone -b", branch)]
        ELSE IF rest # <<>>
        THEN [next |-> "continue", remaining |-> rest, result |-> Idle]
        ELSE [next |-> "raise", remaining |-> rest,
              result |-> Raised("ValueError", "Branches do not exist", branches)]

\* branches as clone_repository_to_path builds the list
BranchesOf(args) ==
    <<args.branch[1]>> \o
        (IF Truthy(args.default_branch) THEN <<args.default_branch[1]>> ELSE <<>>)

\* The git commands after the clone, in the order they are run
CommandsAfterClone(args) ==
    LET upstream == /\ Truthy(args.upstream_url)
                    /\ ~is_same_repo(args.upstream_url[1], ORIGIN_URL)
    IN  (IF Truthy(args.commit)
         THEN <<GitCall("checkout -q", 0, args.commit[1])>> ELSE <<>>)
        \o (IF upstream
            THEN <<GitCall("remote add upstream", 0, args.upstream_url[1])>> ELSE <<>>)
        \o <<GitCall("remote set-url --push disabled", 0,
                     IF upstream THEN <<"upstream">> ELSE <<"origin">>)>>

CloneArgs ==
    [upstream_url : {NoArg, Arg(ORIGIN_URL \o <<".git">>), Arg(<<"https://host/other/repo">>)},
     commit : {NoArg, Arg(<<"c1">>)},
     branch : {NoArg, Arg(<<>>), Arg(<<"b1">>)},
     default_branch : {NoArg, Arg(<<>>), Arg(<<"b1">>), Arg(<<"b2">>)}]

InitClone ==
    /\ Idle_semver
    /\ Idle_message
    /\ Idle_repo
    /\ Idle_unpack /\ Idle_tag /\ Idle_auth
    /\ clone_args \in CloneArgs
    /\ clone_remaining = <<>>
    /\ clone_attempts = <<>>
    /\ clone_result = Idle
    /\ pc = "ready"

\* clone_repository_to_path up to the first clone command: the check of the
\* arguments, then either the list of branches or the clone without -b
\* (check_git raises when the command fails)
CloneBegin ==
    /\ pc = "ready"
    /\ IF clone_args.commit # NoArg /\ clone_args.branch # NoArg
       THEN /\ clone_result' = Raised("ValueError",
                                   "At most one of commit or branch can be specified", <<>>)
            /\ pc' = "done"
            /\ UNCHANGED <<clone_remaining, clone_attempts>>
       ELSE IF Truthy(clone_args.branch)
       THEN /\ clone_remaining' = BranchesOf(clone_args)
            /\ pc' = "cloning"
            /\ UNCHANGED <<clone_attempts, clone_result>>
       ELSE \E outcome \in {"ok", "failed"} :
                /\ clone_attempts' = <<[branch |-> NoArg, outcome |-> outcome]>>
                /\ IF outcome = "ok"
                   THEN pc' = "cloned" /\ UNCHANGED clone_result
                   ELSE /\ pc' = "done"
                        /\ clone_result' = Raised("check_subprocess", "clone", <<>>)
                /\ UNCHANGED clone_remaining
    /\ UNCHANGED <<semverVars, messageVars, repoVars, unpackVars, tagVars, authVars,
                   clone_args>>

\* One iteration of __check_clone_branch: pop the branch, run the clone
\* command, and return, raise or go round again
CloneAttempt ==
    /\ pc = "cloning"
    /\ \E outcome \in CloneOutcomes :
           \E step \in {check_clone_branch(BranchesOf(clone_args), clone_remaining, outcome)} :
               /\ clone_attempts' = Append(clone_attempts,
                      [branch |-> Arg(Head(clone_remaining)), outcome |-> outcome])
               /\ clone_remaining' = step.remaining
               /\ clone_result' = step.result
               /\ pc' = CASE step.next = "return" -> "cloned"
                          [] step.next = "continue" -> "cloning"
                          [] step.next = "raise" -> "done"
    /\ UNCHANGED <<semverVars, messageVars, repoVars, unpackVars, tagVars, authVars,
                   clone_args>>

\* clone_repository_to_path after the clone: checkout of the commit, the
\* upstream remote, the disabled push url; the first command that fails
\* raises
CloneFinish ==
    /\ pc = "cloned"
    /\ \E ran \in 1..Len(CommandsAfterClone(clone_args)), ok \in BOOLEAN :
           /\ (ok => ran = Len(CommandsAfterClone(clone_args)))
           /\ git_calls' = git_calls \o SubSeq(CommandsAfterClone(clone_args), 1, ran)
           /\ clone_result' = IF ok THEN Returned(None)
                              ELSE Raised("check_subprocess",
                                          CommandsAfterClone(clone_args)[ran].command, <<>>)
    /\ pc' = "done"
    /\ UNCHANGED <<semverVars, messageVars, unpackVars, tagVars, authVars,
                   repo_log, repo_refs, summary_result,
                   clone_args, clone_remaining, clone_attempts>>

NextClone == CloneBegin \/ CloneAttempt \/ CloneFinish

SpecClone == InitClone /\ [][NextClone]_vars

\* The call is one thread of control: a step that can be taken is taken
SpecCloneLive == SpecClone /\ WF_vars(NextClone)

\* the call is given a branch, and no commit with it
BranchGiven == Truthy(clone_args.branch) /\ clone_args.commit = NoArg

\* what the attempts made so far and the state of the call must look like
CloneLoopAsListed ==
    LET listed == BranchesOf(clone_args)
        n == Len(clone_attempts)
    IN  /\ n <= Len(listed)
        /\ \A i \in 1..n : clone_attempts[i].branch = Arg(listed[i])
        /\ \A i \in 1..(n - 1) : clone_attempts[i].outcome = "not found"
        /\ (pc \in {"ready", "cloning"}) =>
               /\ n < Len(listed)
               /\ \A i \in 1..n : clone_attempts[i].outcome = "not found"
        /\ (n >= 1 /\ clone_attempts[n].outcome = "ok") =>
               /\ pc \in {"cloned", "done"}
               /\ clone_result.kind = "raise" => clone_result.exc = "check_subprocess"
        /\ (n >= 1 /\ clone_attempts[n].outcome = "failed") =>
               /\ pc = "done"
               /\ clone_result = Raised("CalledProcessError", "clone -b", listed[n])
        /\ (n >= 1 /\ clone_attempts[n].outcome = "not found" /\ n < Len(listed)) =>
               /\ pc = "cloning"
               /\ clone_result = Idle
        /\ (n = Len(listed) /\ clone_attempts[n].outcome = "not found") =>
               /\ pc = "done"
               /\ clone_result = Raised("ValueError", "Branches do not exist", listed)

\* C18: given a branch, the clone attempts go through [branch, default_branch]
\* in that order, one at a time; a success ends the loop with no further
\* attempt; the next branch is tried only after 'Remote branch <b> not
\* found'; any other failure raises CalledProcessError at once; when every
\* listed branch is not found ValueError is raised; there are never more
\* attempts than listed branches, and the loop comes to an end.
C18_CloneFallbackLoop ==
    /\ [](BranchGiven => CloneLoopAsListed)
    /\ <>(pc \notin {"ready", "cloning"})

\* the branch was not found, the default branch was cloned, the call returned
C18_Witness ==
    /\ BranchGiven
    /\ pc = "done"
    /\ clone_attempts = <<[branch |-> Arg(<<"b1">>), outcome |-> "not found"],
                          [branch |-> Arg(<<"b2">>), outcome |-> "ok"]>>
    /\ clone_result = Returned(None)

-----------------------------------------------------------------------------
(* GitRunner.stash_and_clear_auth_env_vars, GitRunner.__init__ and the
   commands a GitRunner runs.  An environment is modelled by its
   GITHUB_TOKEN entry: NoArg when the variable is absent, Arg(value) when it
   is set; the 'env' keyword argument is given or not. *)

MaxRunners == 2
MaxStash == 2
MaxCommands == 2

\* Values of GITHUB_TOKEN in the environment of the process: '' and a token
TokenPool == {<<>>, <<"t1">>}

NoEnv == [given |-> FALSE, token |-> NoArg]

EnvKwarg(token) == [given |-> TRUE, token |-> token]

\* The 'env' a caller of run_git or check_git passes: none, one without
\* GITHUB_TOKEN, one with a GITHUB_TOKEN of its own
CallerKwargs == {NoEnv, EnvKwarg(NoArg), EnvKwarg(Arg(<<"t9">>))}

\* dict.update for the one entry: the entries of auth win
Update(env, auth) == IF auth # NoArg THEN auth ELSE env

\* __init__: the __auth_env of a new GitRunner, "if GitRunner.__GITHUB_TOKEN:"
AuthEnvOf(token) == IF Truthy(token) THEN token ELSE NoArg

\* the injection that leaves a GITHUB_TOKEN of the caller's env in place
inject_auth_CallerWins(auth_env, kwargs, environ) ==
    IF auth_env = NoArg THEN kwargs
    ELSE LET new_env == IF kwargs.given THEN kwargs.token ELSE environ
         IN  EnvKwarg(Update(auth_env, new_env))

\* __inject_auth: kwargs after the call
inject_auth(auth_env, kwargs, environ) ==
    IF auth_env = NoArg THEN kwargs
    ELSE LET new_env == IF kwargs.given THEN kwargs.token ELSE environ
         IN  EnvKwarg(Update(new_env, auth_env))

\* One command handed to run_subprocess or check_subprocess: who ran it and
\* how, the kwargs the caller gave, the kwargs passed on, and the
\* GITHUB_TOKEN the command receives (without 'env' it inherits os.environ)
Subprocess(runner, via, command, caller, kwargs, environ) ==
    [runner |-> runner, via |-> via, command |-> command, caller |-> caller,
     kwargs |-> kwargs,
     received |-> IF kwargs.given THEN kwargs.token ELSE environ]

\* a command run through run_git or check_git (or hub, after __inject_auth)
Injected(runner, via, command, caller, environ) ==
    Subprocess(runner, via, command, caller,
               inject_auth(runners[runner].auth_env, caller, environ), environ)

\* the six commands reinit_local_repository_with_tag gives to
\* check_subprocess_sequence
REINIT_COMMANDS == <<"init", "add .", "remote add origin",
                     "remote set-url --push origin disabled",
                     "commit -q -a -m", "tag HEAD">>

InitAuth ==
    /\ Idle_semver
    /\ Idle_message
    /\ Idle_repo
    /\ Idle_unpack /\ Idle_tag /\ Idle_clone
    /\ os_environ \in {NoArg} \cup {Arg(t) : t \in TokenPool}
    /\ GITHUB_TOKEN = NoArg
    /\ runners = <<>>
    /\ subprocesses = <<>>
    /\ stash_calls = <<>>
    /\ pc = "ready"

authFrame == <<semverVars, messageVars, repoVars, unpackVars, tagVars, cloneVars, pc>>

StashAndClearAuthEnvVars ==
    /\ Len(stash_calls) < MaxStash
    /\ stash_calls' = Append(stash_calls, os_environ)
    /\ IF os_environ # NoArg
       THEN GITHUB_TOKEN' = os_environ /\ os_environ' = NoArg
       ELSE UNCHANGED <<GITHUB_TOKEN, os_environ>>
    /\ UNCHANGED <<authFrame, runners, subprocesses>>

\* GitRunner(options); stashed is how many stash calls came before
NewGitRunner ==
    /\ Len(runners) < MaxRunners
    /\ runners' = Append(runners, [auth_env |-> AuthEnvOf(GITHUB_TOKEN),
                                   stashed |-> Len(stash_calls)])
    /\ UNCHANGED <<authFrame, os_environ, GITHUB_TOKEN, subprocesses, stash_calls>>

RunGit ==
    /\ Len(subprocesses) < MaxCommands
    /\ \E r \in 1..Len(runners), caller \in CallerKwargs :
           subprocesses' = Append(subprocesses,
                                  Injected(r, "run_git", "git", caller, os_environ))
    /\ UNCHANGED <<authFrame, os_environ, GITHUB_TOKEN, runners, stash_calls>>

CheckGit ==
    /\ Len(subprocesses) < MaxCommands
    /\ \E r \in 1..Len(runners), caller \in CallerKwargs :
           subprocesses' = Append(subprocesses,
                                  Injected(r, "check_git", "git", caller, os_environ))
    /\ UNCHANGED <<authFrame, os_environ, GITHUB_TOKEN, runners, stash_calls>>

\* reinit_local_repository_with_tag: 'describe' when git_tag is None and
\* 'remote -v' go through check_git, the six commands that rebuild the
\* repository go to check_subprocess_sequence with no keyword argument
ReinitLocalRepositoryWithTag ==
    /\ Len(subprocesses) < MaxCommands
    /\ \E r \in 1..Len(runners), git_tag_is_None \in BOOLEAN :
           subprocesses' = subprocesses
               \o (IF git_tag_is_None
                   THEN <<Injected(r, "check_git", "describe --tags --abbrev=0",
                                   NoEnv, os_environ)>>
                   ELSE <<>>)
               \o <<Injected(r, "check_git", "remote -v", NoEnv, os_environ)>>
               \o [i \in 1..Len(REINIT_COMMANDS) |->
                      Subprocess(r, "check_subprocess_sequence", REINIT_COMMANDS[i],
                                 NoEnv, NoEnv, os_environ)]
    /\ UNCHANGED <<authFrame, os_environ, GITHUB_TOKEN, runners, stash_calls>>

\* initiate_github_pull_request: nothing is run with --no_pr, else the hub
\* command with the kwargs of __inject_auth({})
InitiateGithubPullRequest ==
    /\ Len(subprocesses) < MaxCommands
    /\ \E r \in 1..Len(runners), no_pr \in BOOLEAN :
           subprocesses' = IF no_pr THEN subprocesses
                           ELSE Append(subprocesses,
                                       Injected(r, "hub", "pull-request", NoEnv, os_environ))
    /\ UNCHANGED <<authFrame, os_environ, GITHUB_TOKEN, runners, stash_calls>>

NextAuth ==
    \/ StashAndClearAuthEnvVars
    \/ NewGitRunner
    \/ RunGit
    \/ CheckGit
    \/ ReinitLocalRepositoryWithTag
    \/ InitiateGithubPullRequest

SpecAuth == InitAuth /\ [][NextAuth]_vars

\* the value the class keeps after the first k stash calls: what the last
\* of them that found the variable set took from the environment
StashedAfter(k) ==
    LET found == {i \in 1..k : stash_calls[i] # NoArg}
    IN  IF found = {} THEN NoArg ELSE stash_calls[Max(found)]

\* what holds of the environment and of the class attribute
StashClearsAndKeeps ==
    /\ (\E i \in 1..Len(stash_calls) : stash_calls[i] # NoArg) => os_environ = NoArg
    /\ GITHUB_TOKEN = StashedAfter(Len(stash_calls))

\* C19 as stated: after a stash that found GITHUB_TOKEN set the environment
\* no longer has it and a later stash keeps the value; every git command of
\* a GitRunner constructed after such a stash receives GITHUB_TOKEN with the
\* stashed value; a GitRunner constructed before any stash injects nothing.
C19_EveryGitCommandReceivesToken ==
    /\ StashClearsAndKeeps
    /\ \A i \in 1..Len(subprocesses) :
           LET entry == subprocesses[i]
               stashed == StashedAfter(runners[entry.runner].stashed)
           IN  entry.via # "hub" =>
                   IF stashed # NoArg
                   THEN entry.received = stashed
                   ELSE entry.kwargs = entry.caller

\* C19, amended: the environment and the kept value as stated; a GitRunner
\* constructed after a stash of a token that is not empty passes, to every
\* command it runs through run_git, check_git or the hub call, an 'env' whose
\* GITHUB_TOKEN is the stashed value, whatever the caller's env held; an
\* empty stashed value and a GitRunner constructed before any stash inject
\* nothing; the six commands of reinit_local_repository_with_tag get no
\* 'env' at all.
C19_InjectedCommandsReceiveToken ==
    /\ StashClearsAndKeeps
    /\ \A i \in 1..Len(subprocesses) :
           LET entry == subprocesses[i]
               stashed == StashedAfter(runners[entry.runner].stashed)
           IN  IF entry.via = "check_subprocess_sequence"
               THEN entry.kwargs = NoEnv
               ELSE IF Truthy(stashed)
               THEN entry.kwargs = EnvKwarg(stashed) /\ entry.received = stashed
               ELSE entry.kwargs = entry.caller

\* a runner from before the stash and one from after it have each run a
\* command, the caller of the second gave a GITHUB_TOKEN of its own, and
\* stash was called again with the variable absent
C19_Witness ==
    /\ stash_calls = <<Arg(<<"t1">>), NoArg>>
    /\ Len(runners) = 2
    /\ runners[1].stashed = 0
    /\ runners[2].stashed = 1
    /\ Len(subprocesses) = 2
    /\ subprocesses[1].runner = 1
    /\ subprocesses[1].received = NoArg
    /\ subprocesses[2].runner = 2
    /\ subprocesses[2].caller = EnvKwarg(Arg(<<"t9">>))
    /\ subprocesses[2].received = Arg(<<"t1">>)

====
